---- MODULE Spec2Model ----
(***************************************************************************)
(* Realtime presence, private messaging and like handling of the social    *)
(* feed server (src/server.js on top of src/db.js).                        *)
(*                                                                         *)
(* The server is one Node.js event loop.  A handler runs without           *)
(* interruption from one await to the next; every await is a query sent to *)
(* the MySQL server through the connection pool (db.js query()).  A query  *)
(* is executed by the database at some later moment and its reply is       *)
(* handed back to the handler at a still later moment, so the model has,   *)
(* per handler, one action for the arrival of the event (the code up to    *)
(* the first await), one "Db..." action per query (the database executes   *)
(* it, atomically) and one action for every continuation that touches      *)
(* state other handlers can see (socket.userId, emitted events).  A        *)
(* continuation that only builds local values and issues the next query is *)
(* folded into the Db action before it.                                    *)
(***************************************************************************)
EXTENDS Integers, Sequences, FiniteSets, TLC

\* Bounds of the model.
MaxTasks == 2     \* socket events handled per run
MaxMsgs  == 3     \* rows of the messages table a chat-history run starts from
MaxGets  == 1     \* chat-history requests per run

Conns  == {"c1", "c2", "c3"}      \* socket.id of the connections that may open
Users  == {"u1", "u2"}            \* user ids (uuid strings, server.js:58)
Posts  == {"p1", "p2"}            \* post ids
Bodies == {"hi"}                  \* message texts
NoVal  == "none"                  \* undefined / null / a missing payload field

NameOf(u) == IF u = "u1" THEN "ann" ELSE "bob"

\* The user signed in on the client behind each connection: u1 uses two
\* devices (c1 and c3), u2 one.
UserOf(c) == IF c = "c2" THEN "u2" ELSE "u1"

\* The accounts of the users: the rows their signups have left in the users
\* table.
EmailOf(u) == IF u = "u1" THEN "ann@x" ELSE "bob@x"

PicOf(u) == IF u = "u1" THEN "ann.png" ELSE "bob.png"

\* bcrypt.hash(password, saltRounds): the stored value is not the password.
bcryptHash(password) == <<"bcrypt", password>>

RegisteredUsers ==
    {[user_id |-> u, email |-> EmailOf(u), password_hash |-> bcryptHash("pw0"),
      username |-> NameOf(u), profile_pic_url |-> PicOf(u)] : u \in Users}

\* The connections that send private messages; c3, a second connection of
\* u1, registers and disconnects, and a message sent from it would mirror one
\* sent from c1.
Senders == {"c1", "c2"}

VARIABLES
    conns,          \* conns[c]: "open" or "closed"
    sockUser,       \* socket.userId of every connection (NoVal: not set)
    online_users,   \* table online_users: rows [userId, username, socketId]
    messages,       \* table messages, in insertion order
    likes,          \* table likes: likes[<<p, u>>] = number of rows (p, u)
    posts,          \* table posts: rows [id, user_id, content, media_url]
    comments,       \* table comments: rows [id, post_id, user_id, content]
    users_table,    \* table users: rows [user_id, email, password_hash, username,
                    \* profile_pic_url]
    password_reset_tokens,  \* table password_reset_tokens: rows [user_id, token, expired]
    tasks,          \* handler invocations in arrival order, with their locals
    emitted         \* events handed to socket.io, in emission order

vars == <<conns, sockUser, online_users, messages, likes, posts, comments, users_table,
          password_reset_tokens,
          tasks, emitted>>

Open == {c \in Conns : conns[c] = "open"}

Truthy(x) == x # NoVal

TaskIds == 1..Len(tasks)

\* tasks with task i changed to t
SetTask(i, t) == [tasks EXCEPT ![i] = t]

(***************************************************************************)
(* db.js: the queries, as functions of the table they read or write.       *)
(***************************************************************************)

\* INSERT ... ON DUPLICATE KEY UPDATE socketId = ?  The duplicate key is the
\* userId column: on a duplicate only socketId is rewritten.
setOnlineStatus(tbl, userId, username, socketId) ==
    IF \E r \in tbl : r.userId = userId
    THEN {IF r.userId = userId THEN [r EXCEPT !.socketId = socketId] ELSE r : r \in tbl}
    ELSE tbl \cup {[userId |-> userId, username |-> username, socketId |-> socketId]}

\* A variant of the DELETE without its WHERE clause.
removeOnlineStatusEvery(tbl, socketId) == {}

removeOnlineStatusBySocketId(tbl, socketId) == {r \in tbl : r.socketId # socketId}

removeOnlineStatusByUserId(tbl, userId) == {r \in tbl : r.userId # userId}

getOnlineUsers(tbl) == tbl

getRecipientSocketId(tbl, recipientId) ==
    LET rows == {r \in tbl : r.userId = recipientId}
    IN  IF rows = {} THEN NoVal ELSE (CHOOSE r \in rows : TRUE).socketId

\* created_at of a new row: the database clock, which never runs backwards
\* and has a resolution that lets two inserts share a value.
CreatedAtChoices(tbl) ==
    IF tbl = <<>> THEN {1} ELSE {tbl[Len(tbl)].created_at, tbl[Len(tbl)].created_at + 1}

\* The row carries the id of the handler that wrote it ("task", a history
\* field that no query reads).
savePrivateMessage(tbl, senderId, recipientId, message, createdAt, task) ==
    Append(tbl, [message_id   |-> Len(tbl) + 1,
                 sender_id    |-> senderId,
                 recipient_id |-> recipientId,
                 message_text |-> message,
                 created_at   |-> createdAt,
                 task         |-> task])

\* The likes table.  Its schema is not part of the sources; a Like is a
\* unique (post, user) fact, so the table has a unique key on
\* (post_id, user_id) and an INSERT of a pair that is present fails with a
\* duplicate-key error.
LikesNoKey(tbl, postId, userId) == FALSE

LikesKeyViolated(tbl, postId, userId) == tbl[<<postId, userId>>] > 0

\* A lookup that never finds the row.
getLikeNever(tbl, postId, userId) == FALSE

\* rows[0] of the SELECT: a row or undefined
getLike(tbl, postId, userId) == tbl[<<postId, userId>>] > 0

addLike(tbl, postId, userId) == [tbl EXCEPT ![<<postId, userId>>] = @ + 1]

\* A variant of the DELETE without the user_id condition.
removeLikeOfPost(tbl, postId, userId) ==
    [k \in DOMAIN tbl |-> IF k[1] = postId THEN 0 ELSE tbl[k]]

removeLike(tbl, postId, userId) == [tbl EXCEPT ![<<postId, userId>>] = 0]

RECURSIVE SumLikes(_, _, _)
SumLikes(tbl, postId, users) ==
    IF users = {} THEN 0
    ELSE LET u == CHOOSE x \in users : TRUE
         IN  tbl[<<postId, u>>] + SumLikes(tbl, postId, users \ {u})

\* SELECT COUNT(*) FROM likes WHERE post_id = ?
getLikeCount(tbl, postId) == SumLikes(tbl, postId, Users)

\* getChatHistory: the WHERE clause, the selected columns, the ORDER BY.
ChatWhere(r, senderId, recipientId) ==
    \/ r.sender_id = senderId /\ r.recipient_id = recipientId
    \/ r.sender_id = recipientId /\ r.recipient_id = senderId

ChatRow(r) ==
    [message_id |-> r.message_id, sender_id |-> r.sender_id,
     message |-> r.message_text, timestamp |-> r.created_at]

\* ORDER BY created_at ASC over the rows numbered ids: SQL leaves the order
\* of rows with equal created_at open, so any row with the least created_at
\* may come first and a set of rows has one result per admissible order.
RECURSIVE OrderByTimestamp(_, _)
OrderByTimestamp(tbl, ids) ==
    IF ids = {} THEN {<<>>}
    ELSE UNION {{<<j>> \o s : s \in OrderByTimestamp(tbl, ids \ {j})} :
                   j \in {x \in ids : \A y \in ids :
                                          tbl[x].created_at <= tbl[y].created_at}}

\* The results the query may return.
getChatHistory(tbl, senderId, recipientId) ==
    {[n \in 1..Len(s) |-> ChatRow(tbl[s[n]])] :
        s \in OrderByTimestamp(tbl,
                 {n \in 1..Len(tbl) : ChatWhere(tbl[n], senderId, recipientId)})}

(***************************************************************************)
(* socket.io                                                               *)
(***************************************************************************)

\* An entry of the log is one emit call: the API used (via), the room it
\* addresses (to), the connected sockets of that room (rcpt) and the handler
\* invocation that made the call (task).

\* io.to(room).emit(event, payload)
IoToEmit(log, room, event, task, payload) ==
    Append(log, [via |-> "io.to", event |-> event, to |-> room,
                 rcpt |-> {room} \cap Open, task |-> task, payload |-> payload])

\* socket.emit(event, payload) on the socket of connection c
SocketEmit(log, c, event, task, payload) ==
    Append(log, [via |-> "socket", event |-> event, to |-> c,
                 rcpt |-> {c} \cap Open, task |-> task, payload |-> payload])

\* io.emit(event, payload): every connected socket
IoEmit(log, event, task, payload) ==
    Append(log, [via |-> "io", event |-> event, to |-> "all",
                 rcpt |-> Open, task |-> task, payload |-> payload])

(***************************************************************************)
(* The server is up and the clients' sockets are connected (the connection *)
(* callback itself only logs, server.js:220-221); nobody is registered.    *)
(***************************************************************************)

Init ==
    /\ conns = [c \in Conns |-> "open"]
    /\ sockUser = [c \in Conns |-> NoVal]
    /\ online_users = {}
    /\ messages = <<>>
    /\ likes = [k \in Posts \X Users |-> 0]
    /\ posts = {}
    /\ comments = {}
    /\ users_table = RegisteredUsers
    /\ password_reset_tokens = {}
    /\ tasks = <<>>
    /\ emitted = <<>>

(***************************************************************************)
(* socket.on('privateMessage')                                             *)
(***************************************************************************)

\* The event arrives: the guard, then the first await.
PrivateMessage(c, senderId, recipientId, message) ==
    /\ conns[c] = "open"
    /\ tasks' = Append(tasks,
          [kind |-> "privateMessage", conn |-> c,
           senderId |-> senderId, recipientId |-> recipientId, message |-> message,
           pc |-> IF Truthy(senderId) /\ Truthy(recipientId) /\ Truthy(message)
                  THEN "savePrivateMessage" ELSE "dropped",
           saved |-> "no", offlineAtSave |-> FALSE, offlineAtLookup |-> FALSE,
           recipientSocketId |-> NoVal, err |-> "no", fault |-> FALSE])
    /\ UNCHANGED <<password_reset_tokens, users_table, posts, comments, conns, sockUser, online_users, messages, likes, emitted>>

\* The INSERT of savePrivateMessage runs.  It writes the row ("ok"), reports
\* affectedRows = 0 ("norow": savePrivateMessage resolves to false, which the
\* handler does not look at) or fails ("error": query() throws, the handler's
\* catch logs it).
DbSavePrivateMessage(i, outcome, createdAt) ==
    /\ i \in TaskIds
    /\ tasks[i].kind = "privateMessage"
    /\ tasks[i].pc = "savePrivateMessage"
    /\ messages' = IF outcome = "ok"
                   THEN savePrivateMessage(messages, tasks[i].senderId,
                            tasks[i].recipientId, tasks[i].message, createdAt, i)
                   ELSE messages
    /\ tasks' = SetTask(i, [tasks[i] EXCEPT
           !.saved = outcome,
           !.offlineAtSave = (getRecipientSocketId(online_users, tasks[i].recipientId) = NoVal),
           !.err = IF outcome = "error" THEN "caught" ELSE "no",
           !.fault = (outcome = "error"),
           !.pc = IF outcome = "error" THEN "done" ELSE "getRecipientSocketId"])
    /\ UNCHANGED <<password_reset_tokens, users_table, posts, comments, conns, sockUser, online_users, likes, emitted>>

\* The SELECT of getRecipientSocketId runs, or fails.
DbGetRecipientSocketId(i, ok) ==
    /\ i \in TaskIds
    /\ tasks[i].kind = "privateMessage"
    /\ tasks[i].pc = "getRecipientSocketId"
    /\ tasks' = SetTask(i,
          IF ok
          THEN [tasks[i] EXCEPT
                  !.recipientSocketId = getRecipientSocketId(online_users, tasks[i].recipientId),
                  !.offlineAtLookup = (getRecipientSocketId(online_users, tasks[i].recipientId) = NoVal),
                  !.pc = "emit"]
          ELSE [tasks[i] EXCEPT !.err = "caught", !.fault = TRUE, !.pc = "done"])
    /\ UNCHANGED <<password_reset_tokens, users_table, posts, comments, conns, sockUser, online_users, messages, likes, emitted>>

\* fullMsg without its timestamp, which is the server's clock at this point
\* and not the created_at of the row.
fullMsg(t) ==
    [sender_id |-> t.senderId, recipient_id |-> t.recipientId, message |-> t.message]

\* Variants of the emits with a plausible slip: the event goes to every
\* socket (io.emit) instead of the recipient's room; the test of
\* recipientSocketId is missing.
PrivateMessageEmitsToAll(log, i, t) ==
    SocketEmit(IoEmit(log, "newPrivateMessage", i, fullMsg(t)),
               t.conn, "newPrivateMessage", i, fullMsg(t))

PrivateMessageEmitsUnguarded(log, i, t) ==
    SocketEmit(IoToEmit(log, t.recipientSocketId, "newPrivateMessage", i, fullMsg(t)),
               t.conn, "newPrivateMessage", i, fullMsg(t))

\* The events the handler emits once the lookup has answered.
PrivateMessageEmits(log, i, t) ==
    LET toRecipient == IF Truthy(t.recipientSocketId)
                       THEN IoToEmit(log, t.recipientSocketId, "newPrivateMessage", i, fullMsg(t))
                       ELSE log
    IN  SocketEmit(toRecipient, t.conn, "newPrivateMessage", i, fullMsg(t))

\* The continuation after the lookup: deliver, then echo.
PrivateMessageDeliver(i) ==
    /\ i \in TaskIds
    /\ tasks[i].kind = "privateMessage"
    /\ tasks[i].pc = "emit"
    /\ emitted' = PrivateMessageEmits(emitted, i, tasks[i])
    /\ tasks' = SetTask(i, [tasks[i] EXCEPT !.pc = "done"])
    /\ UNCHANGED <<password_reset_tokens, users_table, posts, comments, conns, sockUser, online_users, messages, likes>>

(***************************************************************************)
(* Presence: userOnline, userOffline, disconnect, broadcastOnlineUsers     *)
(***************************************************************************)

\* The guard of the first revision of the handler (src/unnamed/part_000:208):
\* only userId is required.
UserOnlineUserIdOnly(c, userId, username) ==
    /\ conns[c] = "open"
    /\ tasks' = Append(tasks,
          [kind |-> "userOnline", conn |-> c, userId |-> userId, username |-> username,
           pc |-> IF Truthy(userId) THEN "setOnlineStatus" ELSE "dropped",
           users |-> {}, err |-> "no", fault |-> FALSE])
    /\ UNCHANGED <<password_reset_tokens, users_table, posts, comments, conns, sockUser, online_users, messages, likes, emitted>>

UserOnline(c, userId, username) ==
    /\ conns[c] = "open"
    /\ tasks' = Append(tasks,
          [kind |-> "userOnline", conn |-> c, userId |-> userId, username |-> username,
           pc |-> IF Truthy(userId) /\ Truthy(username) THEN "setOnlineStatus" ELSE "dropped",
           users |-> {}, err |-> "no", fault |-> FALSE])
    /\ UNCHANGED <<password_reset_tokens, users_table, posts, comments, conns, sockUser, online_users, messages, likes, emitted>>

DbSetOnlineStatus(i, ok) ==
    /\ i \in TaskIds
    /\ tasks[i].kind = "userOnline"
    /\ tasks[i].pc = "setOnlineStatus"
    /\ online_users' = IF ok
                       THEN setOnlineStatus(online_users, tasks[i].userId,
                                            tasks[i].username, tasks[i].conn)
                       ELSE online_users
    /\ tasks' = SetTask(i, IF ok THEN [tasks[i] EXCEPT !.pc = "bind"]
                                 ELSE [tasks[i] EXCEPT !.err = "caught", !.fault = TRUE, !.pc = "done"])
    /\ UNCHANGED <<password_reset_tokens, users_table, posts, comments, conns, sockUser, messages, likes, emitted>>

\* socket.userId = userId; broadcastOnlineUsers() (not awaited)
UserOnlineBind(i) ==
    /\ i \in TaskIds
    /\ tasks[i].kind = "userOnline"
    /\ tasks[i].pc = "bind"
    /\ sockUser' = [sockUser EXCEPT ![tasks[i].conn] = tasks[i].userId]
    /\ tasks' = SetTask(i, [tasks[i] EXCEPT !.pc = "getOnlineUsers"])
    /\ UNCHANGED <<password_reset_tokens, users_table, posts, comments, conns, online_users, messages, likes, emitted>>

UserOffline(c, userId) ==
    /\ conns[c] = "open"
    /\ tasks' = Append(tasks,
          [kind |-> "userOffline", conn |-> c, userId |-> userId, username |-> NoVal,
           pc |-> IF Truthy(userId) THEN "removeOnlineStatusByUserId" ELSE "dropped",
           users |-> {}, err |-> "no", fault |-> FALSE])
    /\ UNCHANGED <<password_reset_tokens, users_table, posts, comments, conns, sockUser, online_users, messages, likes, emitted>>

\* A variant in which the failure of the query is swallowed around the query
\* alone and the handler goes on to clear the binding and to broadcast.
DbRemoveOnlineStatusByUserIdSwallowed(i, ok) ==
    /\ i \in TaskIds
    /\ tasks[i].kind = "userOffline"
    /\ tasks[i].pc = "removeOnlineStatusByUserId"
    /\ online_users' = IF ok THEN removeOnlineStatusByUserId(online_users, tasks[i].userId)
                             ELSE online_users
    /\ tasks' = SetTask(i, IF ok THEN [tasks[i] EXCEPT !.pc = "unbind"]
                                 ELSE [tasks[i] EXCEPT !.err = "caught", !.fault = TRUE, !.pc = "unbind"])
    /\ UNCHANGED <<password_reset_tokens, users_table, posts, comments, conns, sockUser, messages, likes, emitted>>

DbRemoveOnlineStatusByUserId(i, ok) ==
    /\ i \in TaskIds
    /\ tasks[i].kind = "userOffline"
    /\ tasks[i].pc = "removeOnlineStatusByUserId"
    /\ online_users' = IF ok THEN removeOnlineStatusByUserId(online_users, tasks[i].userId)
                             ELSE online_users
    /\ tasks' = SetTask(i, IF ok THEN [tasks[i] EXCEPT !.pc = "unbind"]
                                 ELSE [tasks[i] EXCEPT !.err = "caught", !.fault = TRUE, !.pc = "done"])
    /\ UNCHANGED <<password_reset_tokens, users_table, posts, comments, conns, sockUser, messages, likes, emitted>>

\* delete socket.userId; broadcastOnlineUsers() (not awaited)
UserOfflineUnbind(i) ==
    /\ i \in TaskIds
    /\ tasks[i].kind = "userOffline"
    /\ tasks[i].pc = "unbind"
    /\ sockUser' = [sockUser EXCEPT ![tasks[i].conn] = NoVal]
    /\ tasks' = SetTask(i, [tasks[i] EXCEPT !.pc = "getOnlineUsers"])
    /\ UNCHANGED <<password_reset_tokens, users_table, posts, comments, conns, online_users, messages, likes, emitted>>

\* The transport closes; the handler reads socket.userId on arrival.
Disconnect(c) ==
    /\ conns[c] = "open"
    /\ conns' = [conns EXCEPT ![c] = "closed"]
    /\ tasks' = Append(tasks,
          [kind |-> "disconnect", conn |-> c, userId |-> sockUser[c], username |-> NoVal,
           pc |-> IF Truthy(sockUser[c]) THEN "removeOnlineStatusBySocketId" ELSE "done",
           users |-> {}, err |-> "no", fault |-> FALSE])
    /\ UNCHANGED <<password_reset_tokens, users_table, posts, comments, sockUser, online_users, messages, likes, emitted>>

DbRemoveOnlineStatusBySocketId(i, ok) ==
    /\ i \in TaskIds
    /\ tasks[i].kind = "disconnect"
    /\ tasks[i].pc = "removeOnlineStatusBySocketId"
    /\ online_users' = IF ok THEN removeOnlineStatusBySocketId(online_users, tasks[i].conn)
                             ELSE online_users
    /\ tasks' = SetTask(i, IF ok THEN [tasks[i] EXCEPT !.pc = "getOnlineUsers"]
                                 ELSE [tasks[i] EXCEPT !.err = "caught", !.fault = TRUE, !.pc = "done"])
    /\ UNCHANGED <<password_reset_tokens, users_table, posts, comments, conns, sockUser, messages, likes, emitted>>

\* broadcastOnlineUsers: the SELECT of getOnlineUsers runs, or fails; nothing
\* awaits or catches the promise of broadcastOnlineUsers.
DbGetOnlineUsers(i, ok) ==
    /\ i \in TaskIds
    /\ tasks[i].kind \in {"userOnline", "userOffline", "disconnect"}
    /\ tasks[i].pc = "getOnlineUsers"
    /\ tasks' = SetTask(i, IF ok THEN [tasks[i] EXCEPT !.users = getOnlineUsers(online_users),
                                                        !.pc = "broadcast"]
                                 ELSE [tasks[i] EXCEPT !.err = "unhandled", !.fault = TRUE, !.pc = "done"])
    /\ UNCHANGED <<password_reset_tokens, users_table, posts, comments, conns, sockUser, online_users, messages, likes, emitted>>

userPayload(users) == {[userId |-> u.userId, username |-> u.username] : u \in users}

broadcastOnlineUsers(i) ==
    /\ i \in TaskIds
    /\ tasks[i].kind \in {"userOnline", "userOffline", "disconnect"}
    /\ tasks[i].pc = "broadcast"
    /\ emitted' = IoEmit(emitted, "onlineUsers", i, userPayload(tasks[i].users))
    /\ tasks' = SetTask(i, [tasks[i] EXCEPT !.pc = "done"])
    /\ UNCHANGED <<password_reset_tokens, users_table, posts, comments, conns, sockUser, online_users, messages, likes>>

(***************************************************************************)
(* Presence and private messaging: every client registers and sends under  *)
(* its own user id; the queries of the private-message handler may fail.   *)
(***************************************************************************)

Arrives == Len(tasks) < MaxTasks

NextPM ==
    \/ \E c \in Conns : Arrives /\ UserOnline(c, UserOf(c), NameOf(UserOf(c)))
    \/ \E c \in Conns : Arrives /\ Disconnect(c)
    \/ \E c \in Senders, r \in Users, m \in Bodies :
          Arrives /\ PrivateMessage(c, UserOf(c), r, m)
    \/ \E i \in TaskIds, o \in {"ok", "norow", "error"}, ts \in CreatedAtChoices(messages) :
          DbSavePrivateMessage(i, o, ts)
    \/ \E i \in TaskIds, ok \in BOOLEAN : DbGetRecipientSocketId(i, ok)
    \/ \E i \in TaskIds : PrivateMessageDeliver(i)
    \/ \E i \in TaskIds : DbSetOnlineStatus(i, TRUE)
    \/ \E i \in TaskIds : UserOnlineBind(i)
    \/ \E i \in TaskIds : DbRemoveOnlineStatusBySocketId(i, TRUE)
    \/ \E i \in TaskIds : DbGetOnlineUsers(i, TRUE)
    \/ \E i \in TaskIds : broadcastOnlineUsers(i)

SpecPM == Init /\ [][NextPM]_vars

(***************************************************************************)
(* Presence alone: a client may register or sign off any user id on its    *)
(* connection, and every query may fail.                                   *)
(***************************************************************************)

NextPresence ==
    \/ \E c \in Conns, u \in Users : Arrives /\ UserOnline(c, u, NameOf(u))
    \/ \E c \in Conns, u \in Users : Arrives /\ UserOffline(c, u)
    \/ \E c \in Conns : Arrives /\ Disconnect(c)
    \/ \E i \in TaskIds, ok \in BOOLEAN : DbSetOnlineStatus(i, ok)
    \/ \E i \in TaskIds : UserOnlineBind(i)
    \/ \E i \in TaskIds, ok \in BOOLEAN : DbRemoveOnlineStatusByUserId(i, ok)
    \/ \E i \in TaskIds : UserOfflineUnbind(i)
    \/ \E i \in TaskIds, ok \in BOOLEAN : DbRemoveOnlineStatusBySocketId(i, ok)
    \/ \E i \in TaskIds, ok \in BOOLEAN : DbGetOnlineUsers(i, ok)
    \/ \E i \in TaskIds : broadcastOnlineUsers(i)

SpecPresence == Init /\ [][NextPresence]_vars

(***************************************************************************)
(* socket.on('likePost')                                                   *)
(***************************************************************************)

LikePost(c, postId, userId) ==
    /\ conns[c] = "open"
    /\ tasks' = Append(tasks,
          [kind |-> "likePost", conn |-> c, postId |-> postId, userId |-> userId,
           pc |-> "getLike", row |-> FALSE, newCount |-> 0,
           err |-> "no", fault |-> FALSE])
    /\ UNCHANGED <<password_reset_tokens, users_table, posts, comments, conns, sockUser, online_users, messages, likes, emitted>>

\* The SELECT of getLike runs; the handler then issues removeLike or addLike.
DbGetLike(i, ok) ==
    /\ i \in TaskIds
    /\ tasks[i].kind = "likePost"
    /\ tasks[i].pc = "getLike"
    /\ tasks' = SetTask(i,
          IF ok
          THEN [tasks[i] EXCEPT
                  !.row = getLike(likes, tasks[i].postId, tasks[i].userId),
                  !.pc = IF getLike(likes, tasks[i].postId, tasks[i].userId)
                         THEN "removeLike" ELSE "addLike"]
          ELSE [tasks[i] EXCEPT !.err = "caught", !.fault = TRUE, !.pc = "done"])
    /\ UNCHANGED <<password_reset_tokens, users_table, posts, comments, conns, sockUser, online_users, messages, likes, emitted>>

\* The INSERT of addLike runs: it writes the row, is rejected by the unique
\* key, or fails; in the last two cases query() throws and the catch logs.
DbAddLike(i, ok) ==
    /\ i \in TaskIds
    /\ tasks[i].kind = "likePost"
    /\ tasks[i].pc = "addLike"
    /\ LET dup == LikesKeyViolated(likes, tasks[i].postId, tasks[i].userId)
       IN  /\ likes' = IF ok /\ ~dup
                        THEN addLike(likes, tasks[i].postId, tasks[i].userId)
                        ELSE likes
           /\ tasks' = SetTask(i,
                 IF ok /\ ~dup
                 THEN [tasks[i] EXCEPT !.pc = "getLikeCount"]
                 ELSE [tasks[i] EXCEPT !.err = "caught", !.fault = ~ok, !.pc = "done"])
    /\ UNCHANGED <<password_reset_tokens, users_table, posts, comments, conns, sockUser, online_users, messages, emitted>>

DbRemoveLike(i, ok) ==
    /\ i \in TaskIds
    /\ tasks[i].kind = "likePost"
    /\ tasks[i].pc = "removeLike"
    /\ likes' = IF ok THEN removeLike(likes, tasks[i].postId, tasks[i].userId) ELSE likes
    /\ tasks' = SetTask(i,
          IF ok THEN [tasks[i] EXCEPT !.pc = "getLikeCount"]
                ELSE [tasks[i] EXCEPT !.err = "caught", !.fault = TRUE, !.pc = "done"])
    /\ UNCHANGED <<password_reset_tokens, users_table, posts, comments, conns, sockUser, online_users, messages, emitted>>

DbGetLikeCount(i, ok) ==
    /\ i \in TaskIds
    /\ tasks[i].kind = "likePost"
    /\ tasks[i].pc = "getLikeCount"
    /\ tasks' = SetTask(i,
          IF ok THEN [tasks[i] EXCEPT !.newCount = getLikeCount(likes, tasks[i].postId),
                                      !.pc = "emit"]
                ELSE [tasks[i] EXCEPT !.err = "caught", !.fault = TRUE, !.pc = "done"])
    /\ UNCHANGED <<password_reset_tokens, users_table, posts, comments, conns, sockUser, online_users, messages, likes, emitted>>

\* io.emit('likeUpdate', { postId, newCount })
LikePostBroadcast(i) ==
    /\ i \in TaskIds
    /\ tasks[i].kind = "likePost"
    /\ tasks[i].pc = "emit"
    /\ emitted' = IoEmit(emitted, "likeUpdate", i,
                         [postId |-> tasks[i].postId, newCount |-> tasks[i].newCount])
    /\ tasks' = SetTask(i, [tasks[i] EXCEPT !.pc = "done"])
    /\ UNCHANGED <<password_reset_tokens, users_table, posts, comments, conns, sockUser, online_users, messages, likes>>

(***************************************************************************)
(* Likes: every client likes under its own user id; any query may fail.    *)
(***************************************************************************)

NextLike ==
    \/ \E c \in Conns, p \in Posts : Arrives /\ LikePost(c, p, UserOf(c))
    \/ \E i \in TaskIds, ok \in BOOLEAN : DbGetLike(i, ok)
    \/ \E i \in TaskIds, ok \in BOOLEAN : DbAddLike(i, ok)
    \/ \E i \in TaskIds, ok \in BOOLEAN : DbRemoveLike(i, ok)
    \/ \E i \in TaskIds, ok \in BOOLEAN : DbGetLikeCount(i, ok)
    \/ \E i \in TaskIds : LikePostBroadcast(i)

SpecLike == Init /\ [][NextLike]_vars

(***************************************************************************)
(* GET /api/chathistory                                                    *)
(***************************************************************************)

\* The request arrives: 400 when a parameter is missing, else the query.
ChatHistory(user1Id, user2Id) ==
    /\ tasks' = Append(tasks,
          [kind |-> "chathistory", conn |-> NoVal,
           user1Id |-> user1Id, user2Id |-> user2Id,
           pc |-> IF Truthy(user1Id) /\ Truthy(user2Id) THEN "getChatHistory" ELSE "done",
           status |-> IF Truthy(user1Id) /\ Truthy(user2Id) THEN 0 ELSE 400,
           history |-> <<>>, err |-> "no", fault |-> FALSE])
    /\ UNCHANGED <<password_reset_tokens, users_table, posts, comments, conns, sockUser, online_users, messages, likes, emitted>>

\* The SELECT runs and the response is written: 200 with the rows, or 500.
DbGetChatHistory(i, ok) ==
    /\ i \in TaskIds
    /\ tasks[i].kind = "chathistory"
    /\ tasks[i].pc = "getChatHistory"
    /\ IF ok
       THEN \E h \in getChatHistory(messages, tasks[i].user1Id, tasks[i].user2Id) :
                tasks' = SetTask(i, [tasks[i] EXCEPT !.status = 200, !.history = h,
                                                     !.pc = "done"])
       ELSE tasks' = SetTask(i, [tasks[i] EXCEPT !.status = 500, !.err = "caught",
                                                 !.fault = TRUE, !.pc = "done"])
    /\ UNCHANGED <<password_reset_tokens, users_table, posts, comments, conns, sockUser, online_users, messages, likes, emitted>>

(***************************************************************************)
(* Chat history over the message stores that successful private messages   *)
(* between the users can leave behind.                                     *)
(***************************************************************************)

RECURSIVE MessageStores(_)
MessageStores(n) ==
    IF n = 0 THEN {<<>>}
    ELSE LET shorter == MessageStores(n - 1)
         IN  shorter \cup
             UNION {UNION {{savePrivateMessage(tbl, a, b, m, ts, 0) :
                               a \in Users, b \in Users, m \in Bodies}
                           : ts \in CreatedAtChoices(tbl)}
                    : tbl \in {t \in shorter : Len(t) = n - 1}}

InitHistory ==
    /\ conns = [c \in Conns |-> "open"]
    /\ sockUser = [c \in Conns |-> NoVal]
    /\ online_users = {}
    /\ messages \in MessageStores(MaxMsgs)
    /\ likes = [k \in Posts \X Users |-> 0]
    /\ posts = {}
    /\ comments = {}
    /\ users_table = RegisteredUsers
    /\ password_reset_tokens = {}
    /\ tasks = <<>>
    /\ emitted = <<>>

NextHistory ==
    \/ \E a \in Users \cup {NoVal}, b \in Users \cup {NoVal} :
          Len(tasks) < MaxGets /\ ChatHistory(a, b)
    \/ \E i \in TaskIds, ok \in BOOLEAN : DbGetChatHistory(i, ok)

SpecHistory == InitHistory /\ [][NextHistory]_vars

(***************************************************************************)
(* Private messaging: properties                                           *)
(***************************************************************************)

IsPM(i) == tasks[i].kind = "privateMessage"

\* The newPrivateMessage emit calls of handler invocation i.
PMEvents(i) ==
    {k \in 1..Len(emitted) :
        emitted[k].event = "newPrivateMessage" /\ emitted[k].task = i}

\* The row of the messages table written by handler invocation i is in every
\* result of getChatHistory(a, b).
InHistory(i, a, b) ==
    /\ \E j \in 1..Len(messages) : messages[j].task = i
    /\ \A h \in getChatHistory(messages, a, b) :
          \E n \in 1..Len(h), j \in 1..Len(messages) :
              messages[j].task = i /\ h[n] = ChatRow(messages[j])

\* C1: every newPrivateMessage event that has been emitted belongs to a
\* message that is already a row of the messages table.
C1_PersistedBeforeEmitted ==
    \A k \in 1..Len(emitted) :
        emitted[k].event = "newPrivateMessage" =>
            \E j \in 1..Len(messages) :
                /\ messages[j].task = emitted[k].task
                /\ messages[j].sender_id = emitted[k].payload.sender_id
                /\ messages[j].recipient_id = emitted[k].payload.recipient_id
                /\ messages[j].message_text = emitted[k].payload.message

\* C2: a handler whose savePrivateMessage threw or reported that no row was
\* written emits no newPrivateMessage event and leaves no row in the table.
C2_NoEmitWhenSaveFails ==
    \A i \in TaskIds :
        IsPM(i) /\ tasks[i].saved \in {"norow", "error"} =>
            /\ PMEvents(i) = {}
            /\ \A j \in 1..Len(messages) : messages[j].task # i

\* C3 as claimed: a message persisted while the recipient has no presence
\* entry is in the chat history read from either side and is never emitted
\* to the recipient's room.
C3_OfflineWhenPersisted ==
    \A i \in TaskIds :
        IsPM(i) /\ tasks[i].saved = "ok" /\ tasks[i].offlineAtSave =>
            /\ InHistory(i, tasks[i].senderId, tasks[i].recipientId)
            /\ InHistory(i, tasks[i].recipientId, tasks[i].senderId)
            /\ \A k \in PMEvents(i) : emitted[k].via # "io.to"

\* C3 as amended: a persisted message whose recipient has no presence entry
\* when the handler's getRecipientSocketId query runs is in the chat history
\* read from either side, and its only newPrivateMessage event is the echo on
\* the sender's socket.
C3_OfflineWhenLookedUp ==
    \A i \in TaskIds :
        IsPM(i) /\ tasks[i].saved = "ok" /\ tasks[i].offlineAtLookup =>
            /\ InHistory(i, tasks[i].senderId, tasks[i].recipientId)
            /\ InHistory(i, tasks[i].recipientId, tasks[i].senderId)
            /\ \A k \in PMEvents(i) :
                  emitted[k].via = "socket" /\ emitted[k].to = tasks[i].conn

\* A handler has finished with its message stored, the recipient offline at
\* the lookup and the echo emitted.
C3_Witness ==
    \E i \in TaskIds :
        /\ IsPM(i) /\ tasks[i].pc = "done"
        /\ tasks[i].saved = "ok" /\ tasks[i].offlineAtLookup
        /\ PMEvents(i) # {}

\* C4: once a handler whose message was persisted has finished, its own
\* socket has been sent the echo with the same sender, recipient and body.
C4_EchoWheneverPersisted ==
    \A i \in TaskIds :
        IsPM(i) /\ tasks[i].saved = "ok" /\ tasks[i].pc = "done" =>
            \E k \in PMEvents(i) :
                /\ emitted[k].via = "socket"
                /\ emitted[k].to = tasks[i].conn
                /\ emitted[k].payload = fullMsg(tasks[i])

\* C5: a newPrivateMessage event is addressed only to the socket id that the
\* handler's getRecipientSocketId returned or to the sending socket, and
\* reaches no other connection.
C5_PointToPoint ==
    \A k \in 1..Len(emitted) :
        emitted[k].event = "newPrivateMessage" =>
            LET t == tasks[emitted[k].task]
            IN  /\ \/ emitted[k].to = t.conn
                   \/ Truthy(t.recipientSocketId) /\ emitted[k].to = t.recipientSocketId
                /\ emitted[k].rcpt \subseteq {emitted[k].to}

\* A message was delivered to the recipient's socket while a third
\* connection was open.
C5_Witness ==
    \E k \in 1..Len(emitted) :
        /\ emitted[k].event = "newPrivateMessage"
        /\ emitted[k].via = "io.to"
        /\ emitted[k].rcpt = {emitted[k].to}
        /\ emitted[k].to # tasks[emitted[k].task].conn
        /\ Open \ {emitted[k].to, tasks[emitted[k].task].conn} # {}

\* C6: no connection is sent the newPrivateMessage event of one
\* privateMessage event more than once.
C6_AtMostOncePerConnection ==
    \A i \in TaskIds, c \in Conns :
        Cardinality({k \in PMEvents(i) : emitted[k].to = c}) <= 1

(***************************************************************************)
(* Likes: properties                                                       *)
(***************************************************************************)

IsLike(i) == tasks[i].kind = "likePost"

\* C7: when every event so far was a likePost on one (post, user) pair and
\* every handler has finished without a storage failure, the pair is liked
\* exactly if the number of events is odd.
C7_ToggleParity ==
    \A p \in Posts, u \in Users :
        ( /\ tasks # <<>>
          /\ \A i \in TaskIds :
                /\ IsLike(i) /\ tasks[i].postId = p /\ tasks[i].userId = u
                /\ tasks[i].pc = "done" /\ ~tasks[i].fault )
        => (getLike(likes, p, u) <=> Len(tasks) % 2 = 1)

\* C8: a likeUpdate event carries the number of likes rows its post has at
\* the moment the event is emitted.
C8_CountWhenEmitted ==
    [][\A k \in (Len(emitted) + 1)..Len(emitted') :
          emitted'[k].event = "likeUpdate" =>
              emitted'[k].payload.newCount = getLikeCount(likes', emitted'[k].payload.postId)]_vars

Conversation(a, b) ==
    {ChatRow(messages[j]) :
        j \in {n \in 1..Len(messages) :
                  {messages[n].sender_id, messages[n].recipient_id} = {a, b}}}

\* C10: getChatHistory(A, B) and getChatHistory(B, A) return the same
\* sequence: whatever the query answers for (A, B) equals whatever it answers
\* for (B, A).
C10_SameSequence ==
    \A a \in Users, b \in Users :
        \A h1 \in getChatHistory(messages, a, b), h2 \in getChatHistory(messages, b, a) :
            h1 = h2

\* What holds of C10: the two queries admit the same results; each result
\* holds exactly the rows of the conversation {A, B}, once each, in ascending
\* creation time; there is one result only when no two of these rows share
\* a creation time; and what GET /api/chathistory answered for (A, B) is a
\* result of the query for (B, A).
C10_HistorySymmetric ==
    /\ \A a \in Users, b \in Users :
          LET results == getChatHistory(messages, a, b)
              rows    == Conversation(a, b)
          IN  /\ results = getChatHistory(messages, b, a)
              /\ results # {}
              /\ \A h \in results :
                    /\ {h[n] : n \in 1..Len(h)} = rows
                    /\ Len(h) = Cardinality(rows)
                    /\ \A n \in 1..(Len(h) - 1) : h[n].timestamp <= h[n + 1].timestamp
              /\ (\A r1, r2 \in rows : r1 # r2 => r1.timestamp # r2.timestamp)
                     => Cardinality(results) = 1
    /\ \A i \in TaskIds :
          tasks[i].kind = "chathistory" /\ tasks[i].status = 200 =>
              tasks[i].history \in getChatHistory(messages, tasks[i].user2Id, tasks[i].user1Id)

\* A request for (u1, u2) was answered with messages of both directions
\* while the table also held a message of another conversation.
C10_Witness ==
    \E i \in TaskIds :
        /\ tasks[i].kind = "chathistory" /\ tasks[i].status = 200
        /\ tasks[i].user1Id = "u1" /\ tasks[i].user2Id = "u2"
        /\ \E m, n \in 1..Len(tasks[i].history) :
              /\ tasks[i].history[m].sender_id = "u1"
              /\ tasks[i].history[n].sender_id = "u2"
        /\ Len(messages) > Len(tasks[i].history)

(***************************************************************************)
(* Presence: properties                                                    *)
(***************************************************************************)

IsPresence(i) == tasks[i].kind \in {"userOnline", "userOffline", "disconnect"}

Finished(i) == tasks[i].pc \in {"done", "dropped"}

\* The handler's own change of the registry has been made and, for
\* userOnline and userOffline, its change of socket.userId too.
Registered(i) ==
    /\ tasks[i].kind = "userOnline"
    /\ tasks[i].pc \in {"getOnlineUsers", "broadcast", "done"}
    /\ tasks[i].err # "caught"

\* The onlineUsers emit calls, and those of handler invocation i.
OnlineUsersEvents == {k \in 1..Len(emitted) : emitted[k].event = "onlineUsers"}

OnlineUsersEventsOf(i) == {k \in OnlineUsersEvents : emitted[k].task = i}

\* C11: when userOnline for a user arrives on one connection and then on
\* another, both have registered and nothing else touched the registry, the
\* user resolves to the second connection and has exactly one entry.
C11_SecondRegistrationWins ==
    \A i, j \in TaskIds :
        ( /\ i < j /\ Registered(i) /\ Registered(j)
          /\ tasks[i].userId = tasks[j].userId /\ tasks[i].conn # tasks[j].conn
          /\ \A k \in TaskIds \ {i, j} : tasks[k].pc = "dropped" )
        => /\ getRecipientSocketId(online_users, tasks[j].userId) = tasks[j].conn
           /\ Cardinality({r \in getOnlineUsers(online_users) :
                              r.userId = tasks[j].userId}) = 1

\* C12: the registry never holds two entries with one connection id.
C12_OneEntryPerConnection ==
    \A c \in Conns : Cardinality({r \in online_users : r.socketId = c}) <= 1

\* C13: once a connection is closed and every handler of that connection
\* has finished, none of them hit by a storage failure, the registry holds
\* no entry with that connection's id.
C13_NoEntryOutlivesConnection ==
    \A c \in Conns :
        ( /\ conns[c] = "closed"
          /\ \A i \in TaskIds : tasks[i].conn = c => Finished(i) /\ ~tasks[i].fault )
        => \A r \in online_users : r.socketId # c

\* C16: once every handler has finished, none hit by a storage failure,
\* every handler that changed the registry has emitted an onlineUsers event
\* and the last onlineUsers event lists exactly the users in the registry.
C16_NoStaleListLeft ==
    ( \A i \in TaskIds : IsPresence(i) /\ Finished(i) /\ ~tasks[i].fault )
    => /\ \A i \in TaskIds :
             tasks[i].pc = "done" /\ Truthy(tasks[i].userId) => OnlineUsersEventsOf(i) # {}
       /\ \A k \in OnlineUsersEvents :
             (\A n \in OnlineUsersEvents : n <= k)
                 => emitted[k].payload = userPayload(getOnlineUsers(online_users))

\* C17: the step in which the query of a presence handler fails changes
\* neither the registry nor any socket.userId and emits nothing; the handler
\* is finished by it and has emitted no onlineUsers event.
C17_FailedTransitionAborted ==
    [][\A i \in TaskIds :
          IsPresence(i) /\ tasks[i].err = "no" /\ tasks'[i].err = "caught"
          => /\ online_users' = online_users
             /\ sockUser' = sockUser
             /\ emitted' = emitted
             /\ tasks'[i].pc = "done"
             /\ OnlineUsersEventsOf(i) = {}]_vars

\* A userOffline whose delete failed on a connection that is bound to the user
\* and registered for it: binding and entry are still there.
C17_Witness ==
    \E i \in TaskIds :
        /\ tasks[i].kind = "userOffline" /\ tasks[i].err = "caught" /\ tasks[i].pc = "done"
        /\ sockUser[tasks[i].conn] = tasks[i].userId
        /\ \E r \in online_users : r.userId = tasks[i].userId /\ r.socketId = tasks[i].conn
        /\ OnlineUsersEventsOf(i) = {}

\* C19: no handler ends in a rejection that nothing catches.
C19_NoUnhandledRejection ==
    \A i \in TaskIds : tasks[i].err # "unhandled"

(***************************************************************************)
(* The disconnect handler run again on a connection that has closed.       *)
(* The runs start from connections that have identified themselves.        *)
(***************************************************************************)

\* The handler of server.js:253-264 invoked once more for socket c after its
\* first run has finished: it reads socket.userId, which that run has left
\* as it was.
DisconnectAgain(c) ==
    /\ conns[c] = "closed"
    /\ \E i \in TaskIds : tasks[i].kind = "disconnect" /\ tasks[i].conn = c
    /\ \A i \in TaskIds : tasks[i].conn = c => Finished(i)
    /\ tasks' = Append(tasks,
          [kind |-> "disconnect", conn |-> c, userId |-> sockUser[c], username |-> NoVal,
           pc |-> IF Truthy(sockUser[c]) THEN "removeOnlineStatusBySocketId" ELSE "done",
           users |-> {}, err |-> "no", fault |-> FALSE])
    /\ UNCHANGED <<password_reset_tokens, users_table, posts, comments, conns, sockUser, online_users, messages, likes, emitted>>

\* The connections of a set S of clients of different users have completed
\* userOnline under their own user id.
InitIdentified ==
    \E S \in SUBSET Conns :
        /\ \A c, d \in S : UserOf(c) = UserOf(d) => c = d
        /\ conns = [c \in Conns |-> "open"]
        /\ sockUser = [c \in Conns |-> IF c \in S THEN UserOf(c) ELSE NoVal]
        /\ online_users = {[userId |-> UserOf(c), username |-> NameOf(UserOf(c)),
                             socketId |-> c] : c \in S}
        /\ messages = <<>>
        /\ likes = [k \in Posts \X Users |-> 0]
        /\ posts = {}
        /\ comments = {}
        /\ users_table = RegisteredUsers
        /\ password_reset_tokens = {}
        /\ tasks = <<>>
        /\ emitted = <<>>

NextDisconnect ==
    \/ \E c \in Conns : Arrives /\ Disconnect(c)
    \/ \E c \in Conns : Arrives /\ DisconnectAgain(c)
    \/ \E i \in TaskIds, ok \in BOOLEAN : DbRemoveOnlineStatusBySocketId(i, ok)
    \/ \E i \in TaskIds, ok \in BOOLEAN : DbGetOnlineUsers(i, ok)
    \/ \E i \in TaskIds : broadcastOnlineUsers(i)

SpecDisconnect == InitIdentified /\ [][NextDisconnect]_vars

\* C14: when the disconnect handler is run a second time for a connection
\* and no query of either run fails, the second run emits no onlineUsers
\* event.
C14_SecondRunEmitsNothing ==
    \A i, j \in TaskIds :
        ( /\ i < j
          /\ tasks[i].kind = "disconnect" /\ tasks[j].kind = "disconnect"
          /\ tasks[i].conn = tasks[j].conn
          /\ ~tasks[i].fault /\ ~tasks[j].fault )
        => OnlineUsersEventsOf(j) = {}

(***************************************************************************)
(* The session-based connection callback (src/unnamed/part_001:575-701):   *)
(* presence is set from the session's user when the socket connects and    *)
(* removed when it disconnects; both emit the rows of getOnlineUsers.      *)
(***************************************************************************)

\* io.on('connection'): user is the session's user, or none.
SessionConnection(c, user) ==
    /\ conns[c] = "new"
    /\ conns' = [conns EXCEPT ![c] = "open"]
    /\ tasks' = Append(tasks,
          [kind |-> "sessionConnection", conn |-> c, userId |-> user,
           username |-> IF Truthy(user) THEN NameOf(user) ELSE NoVal,
           pc |-> IF Truthy(user) THEN "setOnlineStatus" ELSE "done",
           users |-> {}, err |-> "no", fault |-> FALSE])
    /\ UNCHANGED <<password_reset_tokens, users_table, posts, comments, sockUser, online_users, messages, likes, emitted>>

\* socket.on('disconnect')
SessionDisconnect(c) ==
    /\ conns[c] = "open"
    /\ conns' = [conns EXCEPT ![c] = "closed"]
    /\ tasks' = Append(tasks,
          [kind |-> "sessionDisconnect", conn |-> c, userId |-> NoVal, username |-> NoVal,
           pc |-> "removeOnlineStatusBySocketId",
           users |-> {}, err |-> "no", fault |-> FALSE])
    /\ UNCHANGED <<password_reset_tokens, users_table, posts, comments, sockUser, online_users, messages, likes, emitted>>

\* db.setOnlineStatus(user.id, user.username, socket.id) resolves or rejects.
DbSessionSetOnlineStatus(i, ok) ==
    /\ i \in TaskIds
    /\ tasks[i].kind = "sessionConnection"
    /\ tasks[i].pc = "setOnlineStatus"
    /\ online_users' = IF ok
                       THEN setOnlineStatus(online_users, tasks[i].userId,
                                            tasks[i].username, tasks[i].conn)
                       ELSE online_users
    /\ tasks' = SetTask(i, IF ok THEN [tasks[i] EXCEPT !.pc = "getOnlineUsers"]
                                 ELSE [tasks[i] EXCEPT !.err = "caught", !.fault = TRUE, !.pc = "done"])
    /\ UNCHANGED <<password_reset_tokens, users_table, posts, comments, conns, sockUser, messages, likes, emitted>>

\* db.removeOnlineStatusBySocketId(socket.id) resolves or rejects.
DbSessionRemoveOnlineStatus(i, ok) ==
    /\ i \in TaskIds
    /\ tasks[i].kind = "sessionDisconnect"
    /\ tasks[i].pc = "removeOnlineStatusBySocketId"
    /\ online_users' = IF ok THEN removeOnlineStatusBySocketId(online_users, tasks[i].conn)
                             ELSE online_users
    /\ tasks' = SetTask(i, IF ok THEN [tasks[i] EXCEPT !.pc = "getOnlineUsers"]
                                 ELSE [tasks[i] EXCEPT !.err = "caught", !.fault = TRUE, !.pc = "done"])
    /\ UNCHANGED <<password_reset_tokens, users_table, posts, comments, conns, sockUser, messages, likes, emitted>>

\* await db.getOnlineUsers() inside .then; a rejection reaches the .catch.
DbSessionGetOnlineUsers(i, ok) ==
    /\ i \in TaskIds
    /\ tasks[i].kind \in {"sessionConnection", "sessionDisconnect"}
    /\ tasks[i].pc = "getOnlineUsers"
    /\ tasks' = SetTask(i, IF ok THEN [tasks[i] EXCEPT !.users = getOnlineUsers(online_users),
                                                        !.pc = "emit"]
                                 ELSE [tasks[i] EXCEPT !.err = "caught", !.fault = TRUE, !.pc = "done"])
    /\ UNCHANGED <<password_reset_tokens, users_table, posts, comments, conns, sockUser, online_users, messages, likes, emitted>>

\* io.emit('onlineUsers', onlineUsers): the rows as the query returned them.
SessionEmitOnlineUsers(i) ==
    /\ i \in TaskIds
    /\ tasks[i].kind \in {"sessionConnection", "sessionDisconnect"}
    /\ tasks[i].pc = "emit"
    /\ emitted' = IoEmit(emitted, "onlineUsers", i, tasks[i].users)
    /\ tasks' = SetTask(i, [tasks[i] EXCEPT !.pc = "done"])
    /\ UNCHANGED <<password_reset_tokens, users_table, posts, comments, conns, sockUser, online_users, messages, likes>>

\* No socket is connected yet.
InitSession ==
    /\ conns = [c \in Conns |-> "new"]
    /\ sockUser = [c \in Conns |-> NoVal]
    /\ online_users = {}
    /\ messages = <<>>
    /\ likes = [k \in Posts \X Users |-> 0]
    /\ posts = {}
    /\ comments = {}
    /\ users_table = RegisteredUsers
    /\ password_reset_tokens = {}
    /\ tasks = <<>>
    /\ emitted = <<>>

NextSession ==
    \/ \E c \in Conns : \E user \in {UserOf(c), NoVal} : Arrives /\ SessionConnection(c, user)
    \/ \E c \in Conns : Arrives /\ SessionDisconnect(c)
    \/ \E i \in TaskIds, ok \in BOOLEAN : DbSessionSetOnlineStatus(i, ok)
    \/ \E i \in TaskIds, ok \in BOOLEAN : DbSessionRemoveOnlineStatus(i, ok)
    \/ \E i \in TaskIds, ok \in BOOLEAN : DbSessionGetOnlineUsers(i, ok)
    \/ \E i \in TaskIds : SessionEmitOnlineUsers(i)

SpecSession == InitSession /\ [][NextSession]_vars

\* The fields an onlineUsers entry may carry.
PublicFields == {"userId", "username", "profilePicUrl"}

\* C15: every entry of every onlineUsers payload carries only the user id,
\* the display name and the profile image reference; none has a socketId.
C15_NoSocketIdInPayload ==
    \A k \in OnlineUsersEvents :
        \A e \in emitted[k].payload : DOMAIN e \subseteq PublicFields

(***************************************************************************)
(* The feed: POST /api/post, POST /api/comment, socket.on('likePost') and  *)
(* the socket.on('newPost') relay of src/unnamed/part_000:266-268.         *)
(***************************************************************************)

\* createPost, createComment: the INSERT
createPost(tbl, postId, userId, content, mediaUrl) ==
    tbl \cup {[id |-> postId, user_id |-> userId, content |-> content,
                media_url |-> mediaUrl]}

createComment(tbl, commentId, postId, userId, content) ==
    tbl \cup {[id |-> commentId, post_id |-> postId, user_id |-> userId,
                content |-> content]}

\* The ways an INSERT behind "return result.affectedRows > 0" can end.
WriteOutcomes == {"ok", "norow", "error"}

\* A variant of the request guard that only asks for content or media.
ApiPostAnyUser(user_id, content, media_url) ==
    /\ tasks' = Append(tasks,
          [kind |-> "apiPost", conn |-> NoVal, id |-> Len(tasks) + 1,
           userId |-> user_id, content |-> content, media_url |-> media_url,
           pc |-> IF ~Truthy(content) /\ ~Truthy(media_url) THEN "done" ELSE "createPost",
           res |-> IF ~Truthy(content) /\ ~Truthy(media_url) THEN 400 ELSE 0,
           err |-> "no", fault |-> FALSE])
    /\ UNCHANGED <<password_reset_tokens, users_table, posts, comments, conns, sockUser, online_users, messages, likes, emitted>>

\* POST /api/post: 400 unless user_id and one of content, media_url are
\* given.  uuidv4() is the request's own number: fresh for every request.
ApiPost(user_id, content, media_url) ==
    /\ tasks' = Append(tasks,
          [kind |-> "apiPost", conn |-> NoVal, id |-> Len(tasks) + 1,
           userId |-> user_id, content |-> content, media_url |-> media_url,
           pc |-> IF ~Truthy(user_id) \/ (~Truthy(content) /\ ~Truthy(media_url))
                  THEN "done" ELSE "createPost",
           res |-> IF ~Truthy(user_id) \/ (~Truthy(content) /\ ~Truthy(media_url))
                   THEN 400 ELSE 0,
           err |-> "no", fault |-> FALSE])
    /\ UNCHANGED <<password_reset_tokens, users_table, posts, comments, conns, sockUser, online_users, messages, likes, emitted>>

\* await db.createPost(...): true, false, or a thrown error (500 both times).
DbCreatePost(i, outcome) ==
    /\ i \in TaskIds
    /\ tasks[i].kind = "apiPost"
    /\ tasks[i].pc = "createPost"
    /\ posts' = IF outcome = "ok"
                THEN createPost(posts, tasks[i].id, tasks[i].userId,
                                tasks[i].content, tasks[i].media_url)
                ELSE posts
    /\ tasks' = SetTask(i,
          CASE outcome = "ok"    -> [tasks[i] EXCEPT !.pc = "updateFeed"]
            [] outcome = "norow" -> [tasks[i] EXCEPT !.pc = "done", !.res = 500, !.fault = TRUE]
            [] OTHER             -> [tasks[i] EXCEPT !.pc = "done", !.res = 500,
                                                     !.err = "caught", !.fault = TRUE])
    /\ UNCHANGED <<password_reset_tokens, users_table, comments, conns, sockUser, online_users, messages, likes, emitted>>

\* if (success): io.emit('updateFeed', newPost); res.json(...)
ApiPostUpdateFeed(i) ==
    /\ i \in TaskIds
    /\ tasks[i].kind = "apiPost"
    /\ tasks[i].pc = "updateFeed"
    /\ emitted' = IoEmit(emitted, "updateFeed", i,
                         [id |-> tasks[i].id, user_id |-> tasks[i].userId,
                          content |-> tasks[i].content, media_path |-> tasks[i].media_url,
                          likesCount |-> 0])
    /\ tasks' = SetTask(i, [tasks[i] EXCEPT !.pc = "done", !.res = 200])
    /\ UNCHANGED <<password_reset_tokens, users_table, posts, comments, conns, sockUser, online_users, messages, likes>>

\* POST /api/comment: 400 unless post_id, user_id and content are given.
\* username and profilePicUrl are further fields of the request body, which
\* the handler reads only for the broadcast.
ApiComment(post_id, user_id, content, username, profilePicUrl) ==
    /\ tasks' = Append(tasks,
          [kind |-> "apiComment", conn |-> NoVal, id |-> Len(tasks) + 1,
           postId |-> post_id, userId |-> user_id, content |-> content,
           username |-> username, profilePicUrl |-> profilePicUrl,
           pc |-> IF ~Truthy(post_id) \/ ~Truthy(user_id) \/ ~Truthy(content)
                  THEN "done" ELSE "createComment",
           res |-> IF ~Truthy(post_id) \/ ~Truthy(user_id) \/ ~Truthy(content)
                   THEN 400 ELSE 0,
           err |-> "no", fault |-> FALSE])
    /\ UNCHANGED <<password_reset_tokens, users_table, posts, comments, conns, sockUser, online_users, messages, likes, emitted>>

DbCreateComment(i, outcome) ==
    /\ i \in TaskIds
    /\ tasks[i].kind = "apiComment"
    /\ tasks[i].pc = "createComment"
    /\ comments' = IF outcome = "ok"
                   THEN createComment(comments, tasks[i].id, tasks[i].postId,
                                      tasks[i].userId, tasks[i].content)
                   ELSE comments
    /\ tasks' = SetTask(i,
          CASE outcome = "ok"    -> [tasks[i] EXCEPT !.pc = "commentUpdate"]
            [] outcome = "norow" -> [tasks[i] EXCEPT !.pc = "done", !.res = 500, !.fault = TRUE]
            [] OTHER             -> [tasks[i] EXCEPT !.pc = "done", !.res = 500,
                                                     !.err = "caught", !.fault = TRUE])
    /\ UNCHANGED <<password_reset_tokens, users_table, posts, conns, sockUser, online_users, messages, likes, emitted>>

\* if (success): io.emit('commentUpdate', newComment); res.json(...)
ApiCommentUpdate(i) ==
    /\ i \in TaskIds
    /\ tasks[i].kind = "apiComment"
    /\ tasks[i].pc = "commentUpdate"
    /\ emitted' = IoEmit(emitted, "commentUpdate", i,
                         [id |-> tasks[i].id, post_id |-> tasks[i].postId,
                          user_id |-> tasks[i].userId, username |-> tasks[i].username,
                          content |-> tasks[i].content,
                          profilePicUrl |-> tasks[i].profilePicUrl])
    /\ tasks' = SetTask(i, [tasks[i] EXCEPT !.pc = "done", !.res = 200])
    /\ UNCHANGED <<password_reset_tokens, users_table, posts, comments, conns, sockUser, online_users, messages, likes>>

\* socket.broadcast.emit(event, payload): every connected socket but c
SocketBroadcastEmit(log, c, event, task, payload) ==
    Append(log, [via |-> "socket.broadcast", event |-> event, to |-> "others",
                 rcpt |-> Open \ {c}, task |-> task, payload |-> payload])

\* What the page sends with socket.emit('newPost', newPostData): an id the
\* client made up (Date.now().toString()).
ClientPosts == {[postId |-> "t1", userId |-> "currentUser123", text |-> "hi",
                 likesCount |-> 0]}

\* socket.on('newPost', (post) => { socket.broadcast.emit('updateFeed', post) })
NewPost(c, post) ==
    /\ conns[c] = "open"
    /\ emitted' = SocketBroadcastEmit(emitted, c, "updateFeed", Len(tasks) + 1, post)
    /\ tasks' = Append(tasks,
          [kind |-> "newPost", conn |-> c, userId |-> post.userId, pc |-> "done",
           err |-> "no", fault |-> FALSE])
    /\ UNCHANGED <<password_reset_tokens, users_table, posts, comments, conns, sockUser, online_users, messages, likes>>

NextFeed ==
    \/ \E u \in Users \cup {NoVal}, content \in Bodies \cup {NoVal} :
           Arrives /\ ApiPost(u, content, NoVal)
    \/ \E i \in TaskIds, outcome \in WriteOutcomes : DbCreatePost(i, outcome)
    \/ \E i \in TaskIds : ApiPostUpdateFeed(i)
    \/ \E p \in Posts \cup {NoVal}, u \in Users, content \in Bodies \cup {NoVal} :
           Arrives /\ ApiComment(p, u, content, NameOf(u), PicOf(u))
    \/ \E i \in TaskIds, outcome \in WriteOutcomes : DbCreateComment(i, outcome)
    \/ \E i \in TaskIds : ApiCommentUpdate(i)
    \/ \E c \in Senders, p \in Posts : Arrives /\ LikePost(c, p, UserOf(c))
    \/ \E i \in TaskIds, ok \in BOOLEAN : DbGetLike(i, ok)
    \/ \E i \in TaskIds, ok \in BOOLEAN : DbAddLike(i, ok)
    \/ \E i \in TaskIds, ok \in BOOLEAN : DbRemoveLike(i, ok)
    \/ \E i \in TaskIds, ok \in BOOLEAN : DbGetLikeCount(i, ok)
    \/ \E i \in TaskIds : LikePostBroadcast(i)
    \/ \E c \in Senders, post \in ClientPosts : Arrives /\ NewPost(c, post)

SpecFeed == Init /\ [][NextFeed]_vars

\* The id of the post an updateFeed payload announces.
PostIdOf(payload) ==
    IF "id" \in DOMAIN payload THEN payload.id ELSE payload.postId

FeedEvents == {k \in 1..Len(emitted) :
                  emitted[k].event \in {"updateFeed", "commentUpdate", "likeUpdate"}}

\* C18: every updateFeed event announces a post that is a row of the posts
\* table, every commentUpdate event a comment that is a row of the comments
\* table, and no handler with a failed write has emitted a feed event.
C18_NoUnpersistedBroadcast ==
    \A k \in FeedEvents :
        /\ emitted[k].event = "updateFeed"
              => \E r \in posts : r.id = PostIdOf(emitted[k].payload)
        /\ emitted[k].event = "commentUpdate"
              => \E r \in comments : r.id = emitted[k].payload.id
        /\ ~tasks[emitted[k].task].fault

(***************************************************************************)
(* Live events whose fields may be missing: userOnline, userOffline and    *)
(* privateMessage with each required field given or absent.                *)
(***************************************************************************)

NextEvents ==
    \/ \E c \in Senders : \E u \in {UserOf(c), NoVal}, n \in {NameOf(UserOf(c)), NoVal} :
           Arrives /\ UserOnline(c, u, n)
    \/ \E c \in Senders : \E u \in {UserOf(c), NoVal} : Arrives /\ UserOffline(c, u)
    \/ \E c \in Senders : \E s \in {UserOf(c), NoVal}, r \in {"u2", NoVal},
                                m \in Bodies \cup {NoVal} :
           Arrives /\ PrivateMessage(c, s, r, m)
    \/ \E i \in TaskIds, ok \in BOOLEAN : DbSetOnlineStatus(i, ok)
    \/ \E i \in TaskIds : UserOnlineBind(i)
    \/ \E i \in TaskIds, ok \in BOOLEAN : DbRemoveOnlineStatusByUserId(i, ok)
    \/ \E i \in TaskIds : UserOfflineUnbind(i)
    \/ \E i \in TaskIds : DbGetOnlineUsers(i, TRUE)
    \/ \E i \in TaskIds : broadcastOnlineUsers(i)
    \/ \E i \in TaskIds, o \in {"ok", "error"}, ts \in CreatedAtChoices(messages) :
           DbSavePrivateMessage(i, o, ts)
    \/ \E i \in TaskIds : DbGetRecipientSocketId(i, TRUE)
    \/ \E i \in TaskIds : PrivateMessageDeliver(i)

SpecEvents == Init /\ [][NextEvents]_vars

\* The event of handler invocation t lacks a field its handler requires.
MissingField(t) ==
    \/ t.kind = "userOnline" /\ (~Truthy(t.userId) \/ ~Truthy(t.username))
    \/ t.kind = "userOffline" /\ ~Truthy(t.userId)
    \/ t.kind = "privateMessage"
         /\ (~Truthy(t.senderId) \/ ~Truthy(t.recipientId) \/ ~Truthy(t.message))

LastOnlineUsersEvents == {k \in OnlineUsersEvents : \A n \in OnlineUsersEvents : n <= k}

\* C21: when userOnline and then userOffline for one user arrive on one
\* connection, both handlers have finished without a storage failure and no
\* other event was handled, the user has no registry entry, the connection
\* is unbound and the last onlineUsers event does not list the user.
C21_ArrivalOrderOnConnection ==
    \A i, j \in TaskIds :
        ( /\ i < j
          /\ tasks[i].kind = "userOnline" /\ tasks[j].kind = "userOffline"
          /\ tasks[i].conn = tasks[j].conn /\ tasks[i].userId = tasks[j].userId
          /\ tasks[i].pc = "done" /\ tasks[j].pc = "done"
          /\ ~tasks[i].fault /\ ~tasks[j].fault
          /\ \A k \in TaskIds \ {i, j} : tasks[k].pc = "dropped" )
        => /\ \A r \in online_users : r.userId # tasks[i].userId
           /\ sockUser[tasks[i].conn] = NoVal
           /\ \A k \in LastOnlineUsersEvents :
                 \A e \in emitted[k].payload : e.userId # tasks[i].userId

(***************************************************************************)
(* Likes handled one at a time: an event arrives only when every handler   *)
(* before it has finished.                                                 *)
(***************************************************************************)

AllFinished == \A i \in TaskIds : Finished(i)

NextLikeSerial ==
    \/ \E c \in Conns, p \in Posts : Arrives /\ AllFinished /\ LikePost(c, p, UserOf(c))
    \/ \E i \in TaskIds, ok \in BOOLEAN : DbGetLike(i, ok)
    \/ \E i \in TaskIds, ok \in BOOLEAN : DbAddLike(i, ok)
    \/ \E i \in TaskIds, ok \in BOOLEAN : DbRemoveLike(i, ok)
    \/ \E i \in TaskIds, ok \in BOOLEAN : DbGetLikeCount(i, ok)
    \/ \E i \in TaskIds : LikePostBroadcast(i)

SpecLikeSerial == Init /\ [][NextLikeSerial]_vars

\* The events emitted by handler invocation i.
EventsOf(i) == {k \in 1..Len(emitted) : emitted[k].task = i}

\* The likePost events up to the j-th event that are for its post.
LikesUpTo(j) == {i \in 1..j : IsLike(i) /\ tasks[i].postId = tasks[j].postId}

\* C22: when likePost events are handled one at a time, every event so far
\* for the post of a finished handler came from the same user and no query of
\* these handlers failed, the handler of the k-th of them has emitted exactly
\* one event: likeUpdate through io.emit with this post and newCount = k mod 2.
C22_SerialLikeCount ==
    \A j \in TaskIds :
        ( /\ IsLike(j) /\ tasks[j].pc = "done"
          /\ \A i \in LikesUpTo(j) :
                tasks[i].userId = tasks[j].userId /\ ~tasks[i].fault )
        => /\ Cardinality(EventsOf(j)) = 1
           /\ \A k \in EventsOf(j) :
                 /\ emitted[k].event = "likeUpdate"
                 /\ emitted[k].via = "io" /\ emitted[k].rcpt = Conns
                 /\ emitted[k].payload.postId = tasks[j].postId
                 /\ emitted[k].payload.newCount = Cardinality(LikesUpTo(j)) % 2

\* A like and then an unlike of one pair have been handled: the events
\* carry 1 and then 0.
C22_Witness ==
    /\ Len(tasks) >= 2
    /\ IsLike(1) /\ IsLike(2)
    /\ tasks[1].postId = tasks[2].postId /\ tasks[1].userId = tasks[2].userId
    /\ tasks[1].pc = "done" /\ tasks[2].pc = "done"
    /\ \E k \in EventsOf(1) : emitted[k].payload.newCount = 1
    /\ \E k \in EventsOf(2) : emitted[k].payload.newCount = 0

(***************************************************************************)
(* socket.on('requestChatHistory') (src/unnamed/part_000:898-906), next to *)
(* private messages being stored; nobody has registered, so every message  *)
(* is stored while its recipient is offline.                               *)
(***************************************************************************)

RequestChatHistory(c, senderId, recipientId) ==
    /\ conns[c] = "open"
    /\ tasks' = Append(tasks,
          [kind |-> "requestChatHistory", conn |-> c,
           senderId |-> senderId, recipientId |-> recipientId,
           pc |-> "getChatHistory", history |-> <<>>, err |-> "no", fault |-> FALSE])
    /\ UNCHANGED <<password_reset_tokens, users_table, posts, comments, conns, sockUser, online_users, messages, likes, emitted>>

\* await db.getChatHistory(senderId, recipientId): the rows, or the catch.
DbRequestChatHistory(i, ok) ==
    /\ i \in TaskIds
    /\ tasks[i].kind = "requestChatHistory"
    /\ tasks[i].pc = "getChatHistory"
    /\ IF ok
       THEN \E h \in getChatHistory(messages, tasks[i].senderId, tasks[i].recipientId) :
                tasks' = SetTask(i, [tasks[i] EXCEPT !.history = h, !.pc = "chatHistory"])
       ELSE tasks' = SetTask(i, [tasks[i] EXCEPT !.err = "caught", !.fault = TRUE,
                                                 !.pc = "done"])
    /\ UNCHANGED <<password_reset_tokens, users_table, posts, comments, conns, sockUser, online_users, messages, likes, emitted>>

\* A variant that hands the history to io.emit.
RequestChatHistoryEmitToAll(i) ==
    /\ i \in TaskIds
    /\ tasks[i].kind = "requestChatHistory"
    /\ tasks[i].pc = "chatHistory"
    /\ emitted' = IoEmit(emitted, "chatHistory", i,
                         [recipientId |-> tasks[i].recipientId, history |-> tasks[i].history])
    /\ tasks' = SetTask(i, [tasks[i] EXCEPT !.pc = "done"])
    /\ UNCHANGED <<password_reset_tokens, users_table, posts, comments, conns, sockUser, online_users, messages, likes>>

\* socket.emit('chatHistory', { recipientId, history })
RequestChatHistoryEmit(i) ==
    /\ i \in TaskIds
    /\ tasks[i].kind = "requestChatHistory"
    /\ tasks[i].pc = "chatHistory"
    /\ emitted' = SocketEmit(emitted, tasks[i].conn, "chatHistory", i,
                             [recipientId |-> tasks[i].recipientId, history |-> tasks[i].history])
    /\ tasks' = SetTask(i, [tasks[i] EXCEPT !.pc = "done"])
    /\ UNCHANGED <<password_reset_tokens, users_table, posts, comments, conns, sockUser, online_users, messages, likes>>

NextRequestHistory ==
    \/ \E c \in Senders, r \in Users, m \in Bodies :
          Arrives /\ PrivateMessage(c, UserOf(c), r, m)
    \/ \E i \in TaskIds, o \in {"ok", "error"}, ts \in CreatedAtChoices(messages) :
          DbSavePrivateMessage(i, o, ts)
    \/ \E i \in TaskIds : DbGetRecipientSocketId(i, TRUE)
    \/ \E i \in TaskIds : PrivateMessageDeliver(i)
    \/ \E c \in Conns, b \in Users : Arrives /\ RequestChatHistory(c, UserOf(c), b)
    \/ \E i \in TaskIds, ok \in BOOLEAN : DbRequestChatHistory(i, ok)
    \/ \E i \in TaskIds : RequestChatHistoryEmit(i)

SpecRequestHistory == Init /\ [][NextRequestHistory]_vars

IsRequest(i) == tasks[i].kind = "requestChatHistory"

\* C23: the history a requestChatHistory handler reads is a result of the
\* query over the messages stored when it reads, i.e. every message of the
\* two users stored so far; the handler emits it once, in a chatHistory
\* event through socket.emit on the requesting connection, which reaches no
\* other connection; a finished handler emits nothing more.
C23_HistoryToRequesterOnly ==
    [][/\ \A i \in TaskIds :
             IsRequest(i) =>
                /\ tasks[i].pc = "getChatHistory" /\ tasks'[i].pc = "chatHistory"
                      => /\ tasks'[i].history \in getChatHistory(messages, tasks[i].senderId,
                                                                  tasks[i].recipientId)
                         /\ \A n \in 1..Len(messages) :
                               ChatWhere(messages[n], tasks[i].senderId, tasks[i].recipientId)
                               => \E x \in 1..Len(tasks'[i].history) :
                                     tasks'[i].history[x] = ChatRow(messages[n])
                /\ tasks[i].pc = "chatHistory" /\ tasks'[i].pc # "chatHistory"
                      => /\ tasks'[i].pc = "done"
                         /\ Len(emitted') = Len(emitted) + 1
                         /\ emitted'[Len(emitted')].event = "chatHistory"
                         /\ emitted'[Len(emitted')].task = i
                /\ tasks[i].pc = "done" => tasks'[i].pc = "done"
       /\ \A k \in (Len(emitted) + 1)..Len(emitted') :
             emitted'[k].event = "chatHistory" =>
                LET i == emitted'[k].task
                IN  /\ IsRequest(i) /\ tasks[i].pc = "chatHistory"
                    /\ emitted'[k].via = "socket" /\ emitted'[k].to = tasks[i].conn
                    /\ emitted'[k].rcpt \subseteq {tasks[i].conn}
                    /\ emitted'[k].payload = [recipientId |-> tasks[i].recipientId,
                                              history |-> tasks[i].history]]_vars

\* u1 has sent u2 a message while u2 was not registered; u2's connection then
\* requested the history with u1 and has been sent it, the message in it.
C23_Witness ==
    \E i, j \in TaskIds, k \in 1..Len(emitted) :
        /\ IsPM(i) /\ tasks[i].senderId = "u1" /\ tasks[i].recipientId = "u2"
        /\ tasks[i].saved = "ok" /\ tasks[i].offlineAtSave
        /\ IsRequest(j) /\ tasks[j].conn = "c2" /\ tasks[j].recipientId = "u1"
        /\ tasks[j].pc = "done"
        /\ emitted[k].event = "chatHistory" /\ emitted[k].task = j
        /\ emitted[k].rcpt = {"c2"}
        /\ \E x \in 1..Len(emitted[k].payload.history) :
              /\ emitted[k].payload.history[x].sender_id = "u1"
              /\ emitted[k].payload.history[x].message = tasks[i].message

(***************************************************************************)
(* Presence events handled one at a time: an event arrives only when every *)
(* handler before it has finished, so a userOffline finds the session as   *)
(* the events before it have left it.                                      *)
(***************************************************************************)

NextPresenceSerial ==
    \/ \E c \in Conns, u \in Users : Arrives /\ AllFinished /\ UserOnline(c, u, NameOf(u))
    \/ \E c \in Conns, u \in Users : Arrives /\ AllFinished /\ UserOffline(c, u)
    \/ \E c \in Conns : Arrives /\ AllFinished /\ Disconnect(c)
    \/ \E i \in TaskIds, ok \in BOOLEAN : DbSetOnlineStatus(i, ok)
    \/ \E i \in TaskIds : UserOnlineBind(i)
    \/ \E i \in TaskIds, ok \in BOOLEAN : DbRemoveOnlineStatusByUserId(i, ok)
    \/ \E i \in TaskIds : UserOfflineUnbind(i)
    \/ \E i \in TaskIds, ok \in BOOLEAN : DbRemoveOnlineStatusBySocketId(i, ok)
    \/ \E i \in TaskIds, ok \in BOOLEAN : DbGetOnlineUsers(i, ok)
    \/ \E i \in TaskIds : broadcastOnlineUsers(i)

SpecPresenceSerial == Init /\ [][NextPresenceSerial]_vars

\* C24: when a connection has registered a user with userOnline and a
\* userOffline event of that connection has then been handled, both without
\* a storage failure and nothing else having been handled, the connection is
\* unbound and the registry holds no entry of the connection and none of the
\* user it was bound to, whatever userId the userOffline event carried.
C24_OfflineLeavesNoEntry ==
    \A i, j \in TaskIds :
        ( /\ i < j
          /\ tasks[i].kind = "userOnline" /\ tasks[j].kind = "userOffline"
          /\ tasks[i].conn = tasks[j].conn
          /\ tasks[i].pc = "done" /\ tasks[j].pc = "done"
          /\ ~tasks[i].fault /\ ~tasks[j].fault
          /\ \A k \in TaskIds \ {i, j} : tasks[k].pc = "dropped" )
        => /\ sockUser[tasks[j].conn] = NoVal
           /\ \A r \in online_users :
                 r.socketId # tasks[j].conn /\ r.userId # tasks[i].userId

(***************************************************************************)
(* POST /api/comment with the display name and the image the client puts   *)
(* into the request body: those of the account, or others.                 *)
(***************************************************************************)

BodyNames(u) == {NameOf(u), "eve"}

BodyPics(u) == {PicOf(u), "old.png"}

NextComment ==
    \/ \E p \in Posts \cup {NoVal}, u \in Users, content \in Bodies \cup {NoVal} :
         \E n \in BodyNames(u), pic \in BodyPics(u) :
           Arrives /\ ApiComment(p, u, content, n, pic)
    \/ \E i \in TaskIds, outcome \in WriteOutcomes : DbCreateComment(i, outcome)
    \/ \E i \in TaskIds : ApiCommentUpdate(i)

SpecComment == Init /\ [][NextComment]_vars

\* C25: every commentUpdate event carries the display name and the profile
\* image that the users table holds for the comment's author.
C25_AuthorFromUserRecord ==
    \A k \in 1..Len(emitted) :
        emitted[k].event = "commentUpdate" =>
            \E r \in users_table :
                /\ r.user_id = emitted[k].payload.user_id
                /\ r.username = emitted[k].payload.username
                /\ r.profile_pic_url = emitted[k].payload.profilePicUrl

(***************************************************************************)
(* POST /api/signup                                                        *)
(***************************************************************************)

\* uuidv4(): a fresh user id for every request.
NewUserId(n) == <<"n1", "n2", "n3", "n4">>[n]

\* The users table rejects a second row with an email or a username that is
\* taken: the handler tells this case by the ER_DUP_ENTRY code and answers
\* 'Email or Username already taken.' (server.js:70-72).
UsersKeyViolated(tbl, email, username) ==
    \E r \in tbl : r.email = email \/ r.username = username

createUser(tbl, userId, email, passwordHash, username, profilePicUrl) ==
    tbl \cup {[user_id |-> userId, email |-> email, password_hash |-> passwordHash,
                username |-> username, profile_pic_url |-> profilePicUrl]}

\* query(): a failure of pool.execute is logged and replaced by
\* new Error('Could not execute database query.'); the value is the code
\* property of the error the caller catches, which the new Error lacks.
queryErrorCode(driverCode) == NoVal

\* The request arrives: 400 unless email, password and username are given;
\* otherwise the password is hashed and createUser is awaited.
ApiSignup(email, password, username, profilePicUrl) ==
    /\ tasks' = Append(tasks,
          [kind |-> "apiSignup", conn |-> NoVal, id |-> NewUserId(Len(tasks) + 1),
           userId |-> NoVal, email |-> email, username |-> username,
           hashedPassword |-> bcryptHash(password), profilePicUrl |-> profilePicUrl,
           pc |-> IF Truthy(email) /\ Truthy(password) /\ Truthy(username)
                  THEN "createUser" ELSE "done",
           res |-> IF Truthy(email) /\ Truthy(password) /\ Truthy(username) THEN 0 ELSE 400,
           duplicate |-> FALSE, err |-> "no", fault |-> FALSE])
    /\ UNCHANGED <<password_reset_tokens, users_table, posts, comments, conns, sockUser, online_users, messages, likes, emitted>>

\* The INSERT of createUser runs and the response is written.  The driver
\* rejects a taken email or username with ER_DUP_ENTRY and fails otherwise
\* with another code ("error"); "norow" is affectedRows = 0.
DbCreateUser(i, outcome) ==
    /\ i \in TaskIds
    /\ tasks[i].kind = "apiSignup"
    /\ tasks[i].pc = "createUser"
    /\ LET dup == UsersKeyViolated(users_table, tasks[i].email, tasks[i].username)
           driverCode == IF outcome = "error" THEN "PROTOCOL_CONNECTION_LOST"
                         ELSE IF dup THEN "ER_DUP_ENTRY" ELSE NoVal
           code == queryErrorCode(driverCode)
       IN  /\ users_table' = IF driverCode = NoVal /\ outcome = "ok"
                             THEN createUser(users_table, tasks[i].id, tasks[i].email,
                                             tasks[i].hashedPassword, tasks[i].username,
                                             tasks[i].profilePicUrl)
                             ELSE users_table
           /\ tasks' = SetTask(i,
                 IF driverCode # NoVal
                 THEN [tasks[i] EXCEPT !.pc = "done", !.duplicate = (driverCode = "ER_DUP_ENTRY"),
                                       !.err = "caught", !.fault = (outcome = "error"),
                                       !.res = IF code = "ER_DUP_ENTRY" THEN 409 ELSE 500]
                 ELSE IF outcome = "ok"
                 THEN [tasks[i] EXCEPT !.pc = "done", !.res = 200]
                 ELSE [tasks[i] EXCEPT !.pc = "done", !.res = 500, !.fault = TRUE])
    /\ UNCHANGED <<password_reset_tokens, posts, comments, conns, sockUser, online_users, messages, likes, emitted>>

SignupEmails == {"ann@x", "zoe@x", NoVal}

NextSignup ==
    \/ \E email \in SignupEmails, username \in {"zoe", "yan", NoVal} :
           Arrives /\ ApiSignup(email, "pw", username, NoVal)
    \/ \E i \in TaskIds, outcome \in WriteOutcomes : DbCreateUser(i, outcome)

SpecSignup == Init /\ [][NextSignup]_vars

\* C26: a signup that the users table rejected because its email or username
\* is taken has been answered with 409.
C26_DuplicateIsConflict ==
    \A i \in TaskIds :
        tasks[i].kind = "apiSignup" /\ tasks[i].pc = "done" /\ tasks[i].duplicate
        => tasks[i].res = 409

(***************************************************************************)
(* POST /api/post with each of user_id, content and media_url given or not *)
(***************************************************************************)

NextPost ==
    \/ \E u \in Users \cup {NoVal}, content \in Bodies \cup {NoVal},
          media \in {"m.png", NoVal} :
           Arrives /\ ApiPost(u, content, media)
    \/ \E i \in TaskIds, outcome \in WriteOutcomes : DbCreatePost(i, outcome)
    \/ \E i \in TaskIds : ApiPostUpdateFeed(i)

SpecPost == Init /\ [][NextPost]_vars

IsApiPost(i) == tasks[i].kind = "apiPost"

\* The request of handler invocation i lacks the user id, or both content
\* and media.
PostInvalid(i) ==
    ~Truthy(tasks[i].userId) \/ (~Truthy(tasks[i].content) /\ ~Truthy(tasks[i].media_url))

\* C27: a post request whose createPost has succeeded and whose handler has
\* finished was answered 200 and has emitted exactly one event: updateFeed
\* through io.emit to every connection, its post with likesCount 0 and the
\* request's user as author.  A request without user id, or with neither
\* content nor media, is answered 400, writes no row and emits nothing.
C27_PostBroadcastOnce ==
    \A i \in TaskIds :
        IsApiPost(i) =>
            /\ PostInvalid(i)
                  => /\ tasks[i].pc = "done" /\ tasks[i].res = 400
                     /\ EventsOf(i) = {}
                     /\ \A r \in posts : r.id # tasks[i].id
            /\ (tasks[i].pc = "done" /\ \E r \in posts : r.id = tasks[i].id)
                  => /\ tasks[i].res = 200
                     /\ Cardinality(EventsOf(i)) = 1
                     /\ \A k \in EventsOf(i) :
                           /\ emitted[k].event = "updateFeed"
                           /\ emitted[k].via = "io" /\ emitted[k].rcpt = Conns
                           /\ emitted[k].payload.id = tasks[i].id
                           /\ emitted[k].payload.likesCount = 0
                           /\ emitted[k].payload.user_id = tasks[i].userId
            /\ (tasks[i].pc = "done" /\ \A r \in posts : r.id # tasks[i].id)
                  => EventsOf(i) = {}

\* A post with media and no content has been stored and announced, and a
\* request without user id has been answered 400.
C27_Witness ==
    \E i, j \in TaskIds :
        /\ IsApiPost(i) /\ tasks[i].pc = "done" /\ tasks[i].res = 200
        /\ ~Truthy(tasks[i].content) /\ Truthy(tasks[i].media_url)
        /\ \E r \in posts : r.id = tasks[i].id /\ r.user_id = tasks[i].userId
        /\ \E k \in EventsOf(i) : emitted[k].payload.likesCount = 0
        /\ IsApiPost(j) /\ ~Truthy(tasks[j].userId) /\ tasks[j].res = 400

\* C28: whenever the registry lookup for a user returns a connection id,
\* that connection is open and its session is bound to that user.  Stated
\* for the states in which every handler has finished and none was hit by
\* a storage failure.
C28_LookupIsLive ==
    (AllFinished /\ \A i \in TaskIds : ~tasks[i].fault)
        => \A u \in Users :
              LET id == getRecipientSocketId(online_users, u)
              IN  id # NoVal => conns[id] = "open" /\ sockUser[id] = u

\* The removal of handler invocation i is executed by this step.
RemovalBySocketIdActs(i) ==
    /\ tasks[i].kind = "disconnect"
    /\ tasks[i].pc = "removeOnlineStatusBySocketId"
    /\ tasks'[i].pc = "getOnlineUsers"

\* C29: a step that executes removeOnlineStatusBySocketId(c) leaves no entry
\* with connection id c, keeps every other entry as it was and adds none;
\* when no entry has connection id c the registry is unchanged and the
\* handler sees no error.
C29_RemovesExactlyThatConnection ==
    [][\A i \in TaskIds :
          RemovalBySocketIdActs(i) =>
              LET c == tasks[i].conn
              IN  /\ \A r \in online_users' : r.socketId # c
                  /\ online_users' = {r \in online_users : r.socketId # c}
                  /\ (\A r \in online_users : r.socketId # c)
                        => online_users' = online_users /\ tasks'[i].err = "no"]_vars

\* Two removals for one connection have been executed, the second one with
\* no entry left to remove, and the entries of other connections are still
\* in the registry.
C29_Witness ==
    \E i, j \in TaskIds :
        /\ i < j
        /\ tasks[i].kind = "disconnect" /\ tasks[j].kind = "disconnect"
        /\ tasks[i].conn = tasks[j].conn
        /\ tasks[i].pc # "removeOnlineStatusBySocketId" /\ ~tasks[i].fault
        /\ Truthy(tasks[i].userId)
        /\ tasks[j].pc \in {"getOnlineUsers", "broadcast", "done"}
        /\ Truthy(tasks[j].userId) /\ tasks[j].err = "no"
        /\ online_users # {}
        /\ \A r \in online_users : r.socketId # tasks[i].conn

\* The likeUpdate broadcasts of handler invocation i for its own post.
LikeUpdatesOf(i) ==
    {k \in EventsOf(i) : /\ emitted[k].event = "likeUpdate"
                          /\ emitted[k].payload.postId = tasks[i].postId}

\* C30: a likePost handler that has ended, none of its queries having failed
\* for want of the storage, has produced exactly one likeUpdate broadcast
\* for its postId; also when it ran interleaved with another handler for
\* the same (postId, userId).
C30_EveryLikeBroadcasts ==
    \A i \in TaskIds :
        (tasks[i].kind = "likePost" /\ tasks[i].pc = "done" /\ ~tasks[i].fault)
            => Cardinality(LikeUpdatesOf(i)) = 1

(***************************************************************************)
(* userOnline with the display name the client sends: a user may come      *)
(* online again under a changed name.                                      *)
(***************************************************************************)

DisplayNames(u) == {NameOf(u), "annie"}

NextUpsert ==
    \/ \E c \in Conns, u \in Users :
          \E name \in DisplayNames(u) : Arrives /\ UserOnline(c, u, name)
    \/ \E i \in TaskIds, ok \in BOOLEAN : DbSetOnlineStatus(i, ok)
    \/ \E i \in TaskIds : UserOnlineBind(i)
    \/ \E i \in TaskIds, ok \in BOOLEAN : DbGetOnlineUsers(i, ok)
    \/ \E i \in TaskIds : broadcastOnlineUsers(i)

SpecUpsert == Init /\ [][NextUpsert]_vars

\* The setOnlineStatus of handler invocation i is executed by this step.
SetOnlineStatusActs(i) ==
    /\ tasks[i].kind = "userOnline"
    /\ tasks[i].pc = "setOnlineStatus"
    /\ tasks'[i].pc = "bind"

\* C31: a step that executes the setOnlineStatus of a userOnline event
\* leaves the registry with an entry for the event's userId that holds the
\* connection id of the event and the display name given in it.
C31_UpsertHoldsConnAndName ==
    [][\A i \in TaskIds :
          SetOnlineStatusActs(i) =>
              \E r \in online_users' :
                  /\ r.userId = tasks[i].userId
                  /\ r.socketId = tasks[i].conn
                  /\ r.username = tasks[i].username]_vars

(***************************************************************************)
(* likePost with the userId the client sends, on connections that have or  *)
(* have not completed userOnline.                                          *)
(***************************************************************************)

NextLikeAs ==
    \/ \E c \in Conns : Arrives /\ UserOnline(c, UserOf(c), NameOf(UserOf(c)))
    \/ \E c \in Conns, p \in Posts, u \in Users : Arrives /\ LikePost(c, p, u)
    \/ \E i \in TaskIds : DbSetOnlineStatus(i, TRUE)
    \/ \E i \in TaskIds : UserOnlineBind(i)
    \/ \E i \in TaskIds : DbGetOnlineUsers(i, TRUE)
    \/ \E i \in TaskIds : broadcastOnlineUsers(i)
    \/ \E i \in TaskIds, ok \in BOOLEAN : DbGetLike(i, ok)
    \/ \E i \in TaskIds, ok \in BOOLEAN : DbAddLike(i, ok)
    \/ \E i \in TaskIds, ok \in BOOLEAN : DbRemoveLike(i, ok)
    \/ \E i \in TaskIds, ok \in BOOLEAN : DbGetLikeCount(i, ok)
    \/ \E i \in TaskIds : LikePostBroadcast(i)

SpecLikeAs == Init /\ [][NextLikeAs]_vars

\* This step is the write of the likes table, or the likeUpdate broadcast,
\* of likePost handler invocation i.
LikeTakesEffect(i) ==
    /\ tasks[i].kind = "likePost"
    /\ \/ tasks[i].pc \in {"addLike", "removeLike"} /\ likes' # likes
       \/ tasks[i].pc = "emit" /\ tasks'[i].pc = "done"

\* C32: a likePost handler changes the likes table, and broadcasts a
\* likeUpdate, only while its connection's session is bound to the userId
\* whose Like it toggles: never for an Anonymous session and never for a
\* session bound to another user.
C32_LikeOnlyOwnUser ==
    [][\A i \in TaskIds :
          LikeTakesEffect(i) => sockUser[tasks[i].conn] = tasks[i].userId]_vars

(***************************************************************************)
(* privateMessage with the senderId the client sends, on connections that  *)
(* have or have not completed userOnline.                                  *)
(***************************************************************************)

NextPMAs ==
    \/ \E c \in Senders : Arrives /\ UserOnline(c, UserOf(c), NameOf(UserOf(c)))
    \/ \E c \in Senders, s \in Users, r \in Users, m \in Bodies :
          Arrives /\ PrivateMessage(c, s, r, m)
    \/ \E i \in TaskIds : DbSetOnlineStatus(i, TRUE)
    \/ \E i \in TaskIds : UserOnlineBind(i)
    \/ \E i \in TaskIds : DbGetOnlineUsers(i, TRUE)
    \/ \E i \in TaskIds : broadcastOnlineUsers(i)
    \/ \E i \in TaskIds, o \in {"ok", "error"}, ts \in CreatedAtChoices(messages) :
          DbSavePrivateMessage(i, o, ts)
    \/ \E i \in TaskIds, ok \in BOOLEAN : DbGetRecipientSocketId(i, ok)
    \/ \E i \in TaskIds : PrivateMessageDeliver(i)

SpecPMAs == Init /\ [][NextPMAs]_vars

\* This step stores the message of privateMessage handler invocation i.
PMPersists(i) ==
    /\ IsPM(i)
    /\ tasks[i].pc = "savePrivateMessage"
    /\ Len(messages') = Len(messages) + 1

\* This step emits the newPrivateMessage events of handler invocation i.
PMDelivers(i) ==
    /\ IsPM(i)
    /\ tasks[i].pc = "emit"
    /\ tasks'[i].pc = "done"

\* C33: the sender_id of a private message, when it is stored and when its
\* newPrivateMessage events are emitted, is the user that the session of
\* the connection which sent the privateMessage event is bound to.
C33_SenderIsSessionUser ==
    [][\A i \in TaskIds :
          /\ PMPersists(i)
                => messages'[Len(messages')].sender_id = sockUser[tasks[i].conn]
          /\ PMDelivers(i)
                => \A k \in (Len(emitted) + 1)..Len(emitted') :
                      emitted'[k].payload.sender_id = sockUser[tasks[i].conn]]_vars

\* The removeOnlineStatusByUserId of userOffline handler invocation i is
\* executed by this step.
RemovalByUserIdActs(i) ==
    /\ tasks[i].kind = "userOffline"
    /\ tasks[i].pc = "removeOnlineStatusByUserId"
    /\ tasks'[i].pc = "unbind"

\* C34: a step that executes the removal of a userOffline event issued on
\* connection A keeps every registry entry whose connection id is not A.
C34_OfflineKeepsOtherConnections ==
    [][\A i \in TaskIds :
          RemovalByUserIdActs(i) =>
              {r \in online_users : r.socketId # tasks[i].conn} \subseteq online_users']_vars

(***************************************************************************)
(* likePost on a likes table that already holds the Likes of earlier       *)
(* toggles: any set of (post, user) pairs, one row each.                   *)
(***************************************************************************)

InitLiked ==
    /\ conns = [c \in Conns |-> "open"]
    /\ sockUser = [c \in Conns |-> NoVal]
    /\ online_users = {}
    /\ messages = <<>>
    /\ likes \in [Posts \X Users -> {0, 1}]
    /\ posts = {}
    /\ comments = {}
    /\ users_table = RegisteredUsers
    /\ password_reset_tokens = {}
    /\ tasks = <<>>
    /\ emitted = <<>>

NextLiked ==
    \/ \E c \in Senders, p \in Posts : Arrives /\ LikePost(c, p, UserOf(c))
    \/ \E i \in TaskIds, ok \in BOOLEAN : DbGetLike(i, ok)
    \/ \E i \in TaskIds, ok \in BOOLEAN : DbAddLike(i, ok)
    \/ \E i \in TaskIds, ok \in BOOLEAN : DbRemoveLike(i, ok)
    \/ \E i \in TaskIds, ok \in BOOLEAN : DbGetLikeCount(i, ok)
    \/ \E i \in TaskIds : LikePostBroadcast(i)

SpecLiked == InitLiked /\ [][NextLiked]_vars

\* This step is a step of likePost handler invocation i.
LikeHandlerSteps(i) ==
    /\ tasks[i].kind = "likePost"
    /\ tasks'[i] # tasks[i]

\* C35: a step of the likePost handler for (p, u) leaves the membership of
\* every other (post, user) pair as it was, and with it the like count of
\* every post other than p.
C35_LikeTouchesOnlyItsPair ==
    [][\A i \in TaskIds :
          LikeHandlerSteps(i) =>
              /\ \A k \in Posts \X Users :
                    k # <<tasks[i].postId, tasks[i].userId>> => likes'[k] = likes[k]
              /\ \A q \in Posts :
                    q # tasks[i].postId => getLikeCount(likes', q) = getLikeCount(likes, q)]_vars

\* A handler has removed the Like of its pair, and has finished, while
\* another user's Like of the same post and a Like of another post are
\* still in the table.
C35_Witness ==
    \E i \in TaskIds :
        /\ tasks[i].kind = "likePost" /\ tasks[i].pc = "done" /\ tasks[i].err = "no"
        /\ tasks[i].row
        /\ likes[<<tasks[i].postId, tasks[i].userId>>] = 0
        /\ \E u \in Users : u # tasks[i].userId /\ likes[<<tasks[i].postId, u>>] = 1
        /\ \E q \in Posts : q # tasks[i].postId /\ getLikeCount(likes, q) > 0

(***************************************************************************)
(* Password reset (the revision that has it: src/unnamed/part_000 and      *)
(* part_002): POST /api/forgot-password and POST /api/reset-password.      *)
(***************************************************************************)

\* uuidv4(): a fresh reset token for every forgot-password request.
NewToken(n) == <<"k1", "k2", "k3", "k4">>[n]

\* SELECT user_id, password_hash, username FROM users WHERE email = ?
\* rows[0]: the user's id, or undefined.
findUserByEmail(tbl, email) ==
    IF \E r \in tbl : r.email = email
    THEN (CHOOSE r \in tbl : r.email = email).user_id
    ELSE NoVal

\* savePasswordResetToken, first statement: DELETE ... WHERE user_id = ?
deleteTokensOfUser(tbl, userId) == {r \in tbl : r.user_id # userId}

\* savePasswordResetToken, second statement: INSERT with expires_at one hour
\* ahead.
insertToken(tbl, userId, token) ==
    tbl \cup {[user_id |-> userId, token |-> token, expired |-> FALSE]}

\* findUserByToken: users JOIN password_reset_tokens WHERE token = ? AND
\* expires_at > NOW(); rows[0]: the user's id, or undefined.
findUserByToken(users, tbl, token) ==
    LET rows == {r \in tbl : /\ r.token = token /\ ~r.expired
                              /\ \E u \in users : u.user_id = r.user_id}
    IN  IF rows = {} THEN NoVal ELSE (CHOOSE r \in rows : TRUE).user_id

\* UPDATE users SET password_hash = ? WHERE user_id = ?
updateUserPassword(tbl, userId, newHashedPassword) ==
    {IF r.user_id = userId THEN [r EXCEPT !.password_hash = newHashedPassword] ELSE r :
        r \in tbl}

\* DELETE FROM password_reset_tokens WHERE token = ?
deletePasswordResetToken(tbl, token) == {r \in tbl : r.token # token}

\* The response bodies of the two endpoints.
MsgLinkSent    == "A password reset link has been sent to your email address."
MsgForgotError == "Server error during password reset request."
MsgResetDone   == "Password has been successfully reset. Please log in."
MsgResetError  == "Server error during password reset."

\* The handler's catch: 500 with the endpoint's error body.
Caught(t, message) ==
    [t EXCEPT !.pc = "done", !.res = 500, !.body = message, !.err = "caught", !.fault = TRUE]

\* POST /api/forgot-password arrives: 400 without an email.
ApiForgotPassword(email) ==
    /\ tasks' = Append(tasks,
          [kind |-> "apiForgotPassword", conn |-> NoVal, email |-> email,
           looked |-> FALSE, userId |-> NoVal, resetToken |-> NoVal, mailed |-> FALSE,
           pc |-> IF Truthy(email) THEN "findUserByEmail" ELSE "done",
           res |-> IF Truthy(email) THEN 0 ELSE 400,
           body |-> IF Truthy(email) THEN NoVal ELSE "Email is required.",
           err |-> "no", fault |-> FALSE])
    /\ UNCHANGED <<password_reset_tokens, users_table, posts, comments, conns, sockUser, online_users, messages, likes, emitted>>

\* findUserByEmail is answered: an unknown email gets the generic success
\* response at once; for a user the token is drawn.
DbForgotFindUser(i, ok) ==
    /\ i \in TaskIds
    /\ tasks[i].kind = "apiForgotPassword"
    /\ tasks[i].pc = "findUserByEmail"
    /\ LET user == findUserByEmail(users_table, tasks[i].email)
       IN  tasks' = SetTask(i,
              IF ~ok THEN Caught(tasks[i], MsgForgotError)
              ELSE IF ~Truthy(user)
              THEN [tasks[i] EXCEPT !.looked = TRUE, !.pc = "done", !.res = 200,
                                    !.body = MsgLinkSent]
              ELSE [tasks[i] EXCEPT !.looked = TRUE, !.userId = user,
                                    !.resetToken = NewToken(i), !.pc = "deleteToken"])
    /\ UNCHANGED <<password_reset_tokens, users_table, posts, comments, conns, sockUser, online_users, messages, likes, emitted>>

\* savePasswordResetToken: its DELETE runs.
DbForgotDeleteToken(i, ok) ==
    /\ i \in TaskIds
    /\ tasks[i].kind = "apiForgotPassword"
    /\ tasks[i].pc = "deleteToken"
    /\ password_reset_tokens' =
          IF ok THEN deleteTokensOfUser(password_reset_tokens, tasks[i].userId)
                ELSE password_reset_tokens
    /\ tasks' = SetTask(i, IF ok THEN [tasks[i] EXCEPT !.pc = "insertToken"]
                                 ELSE Caught(tasks[i], MsgForgotError))
    /\ UNCHANGED <<users_table, posts, comments, conns, sockUser, online_users, messages, likes, emitted>>

\* savePasswordResetToken: its INSERT runs; the handler ignores the returned
\* affectedRows > 0.
DbForgotInsertToken(i, ok) ==
    /\ i \in TaskIds
    /\ tasks[i].kind = "apiForgotPassword"
    /\ tasks[i].pc = "insertToken"
    /\ password_reset_tokens' =
          IF ok THEN insertToken(password_reset_tokens, tasks[i].userId, tasks[i].resetToken)
                ELSE password_reset_tokens
    /\ tasks' = SetTask(i, IF ok THEN [tasks[i] EXCEPT !.pc = "sendMail"]
                                 ELSE Caught(tasks[i], MsgForgotError))
    /\ UNCHANGED <<users_table, posts, comments, conns, sockUser, online_users, messages, likes, emitted>>

\* transporter.sendMail resolves or rejects; the inner catch logs, and the
\* generic success response is written either way.
ForgotSendMail(i, sent) ==
    /\ i \in TaskIds
    /\ tasks[i].kind = "apiForgotPassword"
    /\ tasks[i].pc = "sendMail"
    /\ tasks' = SetTask(i, [tasks[i] EXCEPT !.mailed = sent, !.pc = "done", !.res = 200,
                                            !.body = MsgLinkSent])
    /\ UNCHANGED <<password_reset_tokens, users_table, posts, comments, conns, sockUser, online_users, messages, likes, emitted>>

\* The hour of a token passes: expires_at > NOW() no longer holds.
TokenExpires(token) ==
    /\ \E r \in password_reset_tokens : r.token = token /\ ~r.expired
    /\ password_reset_tokens' =
          {IF r.token = token THEN [r EXCEPT !.expired = TRUE] ELSE r :
              r \in password_reset_tokens}
    /\ UNCHANGED <<users_table, posts, comments, conns, sockUser, online_users, messages, likes, tasks, emitted>>

\* POST /api/reset-password arrives: 400 without token or password, and for
\* a password of fewer than 8 characters.
ApiResetPassword(token, newPassword) ==
    LET missing == ~Truthy(token) \/ ~Truthy(newPassword)
        short   == ~missing /\ Len(newPassword) < 8
    IN  /\ tasks' = Append(tasks,
              [kind |-> "apiResetPassword", conn |-> NoVal, token |-> token,
               newPassword |-> newPassword, userId |-> NoVal,
               pc |-> IF missing \/ short THEN "done" ELSE "findUserByToken",
               res |-> IF missing \/ short THEN 400 ELSE 0,
               body |-> IF missing THEN "Token and new password are required."
                        ELSE IF short THEN "New password must be at least 8 characters long."
                        ELSE NoVal,
               err |-> "no", fault |-> FALSE])
        /\ UNCHANGED <<password_reset_tokens, users_table, posts, comments, conns, sockUser, online_users, messages, likes, emitted>>

\* findUserByToken is answered: 400 when no valid token row is found.
DbFindUserByToken(i, ok) ==
    /\ i \in TaskIds
    /\ tasks[i].kind = "apiResetPassword"
    /\ tasks[i].pc = "findUserByToken"
    /\ LET user == findUserByToken(users_table, password_reset_tokens, tasks[i].token)
       IN  tasks' = SetTask(i,
              IF ~ok THEN Caught(tasks[i], MsgResetError)
              ELSE IF ~Truthy(user)
              THEN [tasks[i] EXCEPT !.pc = "done", !.res = 400,
                                    !.body = "Invalid or expired reset token."]
              ELSE [tasks[i] EXCEPT !.userId = user, !.pc = "updateUserPassword"])
    /\ UNCHANGED <<password_reset_tokens, users_table, posts, comments, conns, sockUser, online_users, messages, likes, emitted>>

\* The new password has been hashed and updateUserPassword runs.
DbUpdateUserPassword(i, ok) ==
    /\ i \in TaskIds
    /\ tasks[i].kind = "apiResetPassword"
    /\ tasks[i].pc = "updateUserPassword"
    /\ users_table' = IF ok THEN updateUserPassword(users_table, tasks[i].userId,
                                                     bcryptHash(tasks[i].newPassword))
                            ELSE users_table
    /\ tasks' = SetTask(i, IF ok THEN [tasks[i] EXCEPT !.pc = "deletePasswordResetToken"]
                                 ELSE Caught(tasks[i], MsgResetError))
    /\ UNCHANGED <<password_reset_tokens, posts, comments, conns, sockUser, online_users, messages, likes, emitted>>

\* deletePasswordResetToken runs (its affectedRows > 0 is ignored) and the
\* success response is written.
DbDeletePasswordResetToken(i, ok) ==
    /\ i \in TaskIds
    /\ tasks[i].kind = "apiResetPassword"
    /\ tasks[i].pc = "deletePasswordResetToken"
    /\ password_reset_tokens' =
          IF ok THEN deletePasswordResetToken(password_reset_tokens, tasks[i].token)
                ELSE password_reset_tokens
    /\ tasks' = SetTask(i, IF ok THEN [tasks[i] EXCEPT !.pc = "done", !.res = 200,
                                                       !.body = MsgResetDone]
                                 ELSE Caught(tasks[i], MsgResetError))
    /\ UNCHANGED <<users_table, posts, comments, conns, sockUser, online_users, messages, likes, emitted>>

\* The token a forgot-password request has stored for user u.
IssuedToken(u) == IF u = "u1" THEN "t1" ELSE "t2"

\* The users of a set S have requested a reset and hold a valid token.
InitTokens ==
    \E S \in SUBSET Users :
        /\ conns = [c \in Conns |-> "open"]
        /\ sockUser = [c \in Conns |-> NoVal]
        /\ online_users = {}
        /\ messages = <<>>
        /\ likes = [k \in Posts \X Users |-> 0]
        /\ posts = {}
        /\ comments = {}
        /\ users_table = RegisteredUsers
        /\ password_reset_tokens =
              {[user_id |-> u, token |-> IssuedToken(u), expired |-> FALSE] : u \in S}
        /\ tasks = <<>>
        /\ emitted = <<>>

NewPasswords == {"password1", "password2", "short", NoVal}

NextReset ==
    \/ \E token \in {"t1", "t2", "bogus", NoVal}, newPassword \in NewPasswords :
          Arrives /\ ApiResetPassword(token, newPassword)
    \/ \E i \in TaskIds, ok \in BOOLEAN : DbFindUserByToken(i, ok)
    \/ \E i \in TaskIds, ok \in BOOLEAN : DbUpdateUserPassword(i, ok)
    \/ \E i \in TaskIds, ok \in BOOLEAN : DbDeletePasswordResetToken(i, ok)
    \/ \E token \in {"t1", "t2"} : TokenExpires(token)

SpecReset == InitTokens /\ [][NextReset]_vars

\* C36: no two reset-password requests with one token have both succeeded.
C36_TokenUsedOnce ==
    \A i, j \in TaskIds :
        (/\ tasks[i].kind = "apiResetPassword" /\ tasks[j].kind = "apiResetPassword"
         /\ tasks[i].token = tasks[j].token
         /\ tasks[i].res = 200 /\ tasks[j].res = 200)
            => i = j

(***************************************************************************)
(* POST /api/forgot-password, for registered and unknown emails.           *)
(***************************************************************************)

ForgotEmails == {"ann@x", "zoe@x", NoVal}

NextForgot ==
    \/ \E email \in ForgotEmails : Arrives /\ ApiForgotPassword(email)
    \/ \E i \in TaskIds, ok \in BOOLEAN : DbForgotFindUser(i, ok)
    \/ \E i \in TaskIds, ok \in BOOLEAN : DbForgotDeleteToken(i, ok)
    \/ \E i \in TaskIds, ok \in BOOLEAN : DbForgotInsertToken(i, ok)
    \/ \E i \in TaskIds, sent \in BOOLEAN : ForgotSendMail(i, sent)
    \/ \E n \in 1..MaxTasks : TokenExpires(NewToken(n))

SpecForgot == Init /\ [][NextForgot]_vars

\* C37: the token table never holds two tokens of one user.
C37_OneTokenPerUser ==
    \A u \in Users :
        Cardinality({r \in password_reset_tokens : r.user_id = u}) <= 1

IsForgot(i) == tasks[i].kind = "apiForgotPassword"

\* C38: two finished forgot-password requests whose user lookup was
\* answered, one for a registered email and one for an unknown one, got the
\* same status and the same body.
C38_ForgotHidesRegistration ==
    \A i, j \in TaskIds :
        (/\ IsForgot(i) /\ IsForgot(j)
         /\ tasks[i].pc = "done" /\ tasks[j].pc = "done"
         /\ tasks[i].looked /\ tasks[j].looked
         /\ Truthy(tasks[i].userId) /\ ~Truthy(tasks[j].userId))
            => tasks[i].res = tasks[j].res /\ tasks[i].body = tasks[j].body

====
